---- MODULE Spec2Model ----
(***************************************************************************)
(* Ingestion, normalization and aggregation pipeline of cbb-analytics:     *)
(* backend/clients/cbbdata.py, backend/scripts/refresh.py, backend/db.py   *)
(* and the helpers of backend/main.py.                                     *)
(*                                                                         *)
(* Text is modelled as a sequence of one-character strings so that         *)
(* slicing, splitting, lower-casing and replacing are computed.  A value   *)
(* of a row is a tagged tuple: <<"null">> (None / SQL NULL),               *)
(* <<"nan">> (a non-finite float), <<"num", n>> (an integer),              *)
(* <<"dec", t>> (the number t/10) and <<"str", chars>>.                    *)
(***************************************************************************)
EXTENDS Integers, Sequences, FiniteSets, TLC

VARIABLES
    player_seasons, team_seasons, player_games, team_games, game_num_seq,
    run, tasks, pending, hist, reader, conv, helper, season_cache, client

vars == <<player_seasons, team_seasons, player_games, team_games, game_num_seq,
          run, tasks, pending, hist, reader, conv, helper, season_cache, client>>

storeVars == <<player_seasons, team_seasons, player_games, team_games, game_num_seq>>

pipeVars == <<run, tasks, pending, hist, reader>>

\* the helpers and the read path of the client, which the refresh job leaves alone
sideVars == <<conv, helper, season_cache, client>>

----------------------------------------------------------------------------
(* Text *)

Digits == <<"0", "1", "2", "3", "4", "5", "6", "7", "8", "9">>

UpperCase == <<"A", "B", "C", "D", "E", "F", "G", "H", "I", "J", "K", "L", "M",
               "N", "O", "P", "Q", "R", "S", "T", "U", "V", "W", "X", "Y", "Z">>

LowerCase == <<"a", "b", "c", "d", "e", "f", "g", "h", "i", "j", "k", "l", "m",
               "n", "o", "p", "q", "r", "s", "t", "u", "v", "w", "x", "y", "z">>

IsDigit(c) == \E i \in 1..10 : Digits[i] = c

DigitVal(c) == (CHOOSE i \in 1..10 : Digits[i] = c) - 1

RECURSIVE NatToStr(_)
\* str(n) for n >= 0
NatToStr(n) ==
    IF n < 10 THEN <<Digits[n + 1]>>
    ELSE NatToStr(n \div 10) \o <<Digits[(n % 10) + 1]>>

\* str(n) of a Python int
IntToStr(n) == IF n < 0 THEN <<"-">> \o NatToStr(0 - n) ELSE NatToStr(n)

RECURSIVE DigitsToNat(_)
DigitsToNat(s) ==
    IF s = <<>> THEN 0
    ELSE 10 * DigitsToNat(SubSeq(s, 1, Len(s) - 1)) + DigitVal(s[Len(s)])

\* s[k:] of Python, k >= 0 (0-based start)
SliceFrom(s, k) == IF k >= Len(s) THEN <<>> ELSE SubSeq(s, k + 1, Len(s))

\* s.split(sep)[0]: the text before the first separator, or all of s
SplitFirst(s, sep) ==
    IF \E i \in 1..Len(s) : s[i] = sep
    THEN LET i == CHOOSE i \in 1..Len(s) :
                     s[i] = sep /\ \A j \in 1..(i - 1) : s[j] # sep
         IN SubSeq(s, 1, i - 1)
    ELSE s

\* int(text): a value for a non-empty run of decimal digits, ValueError otherwise
ParseInt(s) ==
    IF s # <<>> /\ \A i \in 1..Len(s) : IsDigit(s[i])
    THEN [ok |-> TRUE, val |-> DigitsToNat(s)]
    ELSE [ok |-> FALSE, val |-> 0]

LowerChar(c) ==
    IF \E i \in 1..26 : UpperCase[i] = c
    THEN LowerCase[CHOOSE i \in 1..26 : UpperCase[i] = c]
    ELSE c

\* s.lower()
Lower(s) == [i \in 1..Len(s) |-> LowerChar(s[i])]

\* s.replace(" ", "_")
ReplaceSpaces(s) == [i \in 1..Len(s) |-> IF s[i] = " " THEN "_" ELSE s[i]]

----------------------------------------------------------------------------
(* Identifier Converter *)

\* _season_to_year: int(season.split("-")[0]) + 1, ValueError when int() fails
season_to_year(season) ==
    LET head == ParseInt(SplitFirst(season, "-"))
    IN IF head.ok THEN [ok |-> TRUE, val |-> head.val + 1]
       ELSE [ok |-> FALSE, val |-> 0]

\* _year_to_season: f"{year - 1}-{str(year)[2:]}"
year_to_season(year) ==
    IntToStr(year - 1) \o <<"-">> \o SliceFrom(IntToStr(year), 2)

----------------------------------------------------------------------------
(* Values *)

Null == <<"null">>

NaN == <<"nan">>

Num(n) == <<"num", n>>

Dec(t) == <<"dec", t>>

Str(s) == <<"str", s>>

Date(y, m, d) == <<"date", y, m, d>>

IsNull(v) == v[1] = "null"

\* dict.get(key): None when the key is absent
Get(row, k) == IF k \in DOMAIN row THEN row[k] ELSE Null

\* dict.get(key, default)
GetOr(row, k, default) == IF k \in DOMAIN row THEN row[k] ELSE default

Pad2(n) == IF n < 10 THEN <<"0">> \o NatToStr(n) ELSE NatToStr(n)

\* datetime.date.isoformat(): "YYYY-MM-DD"
isoformat(v) == NatToStr(v[2]) \o <<"-">> \o Pad2(v[3]) \o <<"-">> \o Pad2(v[4])

\* str(value) of Python
PyStr(v) ==
    CASE v[1] = "null" -> <<"N", "o", "n", "e">>
      [] v[1] = "nan"  -> <<"n", "a", "n">>
      [] v[1] = "num"  -> IntToStr(v[2])
      [] v[1] = "dec"  -> IntToStr(v[2] \div 10) \o <<".">> \o NatToStr(v[2] % 10)
      [] v[1] = "date" -> isoformat(v)
      [] OTHER         -> v[2]

\* truthiness of a value: None, "" and 0 are false
Truthy(v) ==
    CASE v[1] = "null" -> FALSE
      [] v[1] = "str"  -> v[2] # <<>>
      [] v[1] = "num"  -> v[2] # 0
      [] v[1] = "dec"  -> v[2] # 0
      [] OTHER         -> TRUE

\* _clean: a float NaN or infinity becomes None, everything else is kept
clean(v) == IF v[1] = "nan" THEN Null ELSE v

\* the slug of identity resolution: str(v).lower().replace(" ", "_")
Slug(v) == ReplaceSpaces(Lower(PyStr(v)))

----------------------------------------------------------------------------
(* Field Mapper *)

PLAYER_FIELD_MAP ==
    [id |-> "torvik_id", player |-> "name", team |-> "team", conf |-> "conference",
     pos |-> "position", exp |-> "year_in_school", hgt |-> "height",
     g |-> "games", mpg |-> "mpg", ppg |-> "pts", rpg |-> "reb", apg |-> "ast",
     spg |-> "stl", bpg |-> "blk", tov |-> "tov", usg |-> "usg_pct", ts |-> "ts_pct",
     efg |-> "efg_pct", ftr |-> "ftr", ortg |-> "ortg", drtg |-> "drtg", bpm |-> "bpm",
     obpm |-> "obpm", dbpm |-> "dbpm", porpag |-> "porpag", fg_pct |-> "fg_pct",
     three_pct |-> "three_pct", ft_pct |-> "ft_pct"]

TEAM_FIELD_MAP ==
    [team |-> "name", conf |-> "conference", adj_o |-> "ortg", adj_d |-> "drtg",
     adj_t |-> "pace", barthag |-> "barthag", wab |-> "wab", nc_cur_sos |-> "nc_sos",
     ov_cur_sos |-> "ov_sos", seed |-> "seed"]

TEAM_GAME_BOX_FIELD_MAP ==
    [game_id |-> "game_id", date |-> "date", type |-> "type", location |-> "location",
     result |-> "result", team |-> "team_name", opp |-> "opponent",
     opp_conf |-> "opp_conf", min |-> "min", pos |-> "pos", pts |-> "pts",
     fgm |-> "fgm", fga |-> "fga", tpm |-> "tpm", tpa |-> "tpa", ftm |-> "ftm",
     fta |-> "fta", oreb |-> "oreb", dreb |-> "dreb", reb |-> "reb", ast |-> "ast",
     stl |-> "stl", blk |-> "blk", to |-> "tov", opp_pts |-> "opp_pts",
     opp_fgm |-> "opp_fgm", opp_fga |-> "opp_fga", opp_tpm |-> "opp_tpm",
     opp_tpa |-> "opp_tpa", opp_ftm |-> "opp_ftm", opp_fta |-> "opp_fta",
     opp_oreb |-> "opp_oreb", opp_dreb |-> "opp_dreb", opp_reb |-> "opp_reb",
     opp_ast |-> "opp_ast", opp_stl |-> "opp_stl", opp_blk |-> "opp_blk",
     opp_to |-> "opp_tov"]

GAME_LOG_FIELD_MAP ==
    [date |-> "date", opp |-> "opponent", result |-> "result", loc |-> "location",
     min |-> "min", pts |-> "pts", reb |-> "reb", ast |-> "ast", stl |-> "stl",
     blk |-> "blk", tov |-> "tov", two_m |-> "two_m", two_a |-> "two_a",
     three_m |-> "three_m", three_a |-> "three_a", ftm |-> "ftm", fta |-> "fta",
     ortg |-> "ortg", usg |-> "usg", efg |-> "efg", ts |-> "ts", bpm |-> "bpm_game",
     obpm |-> "obpm_game", dbpm |-> "dbpm_game", poss |-> "poss"]

PassthroughKeys == {"player_id", "team_id"}

\* a mapper that keeps every column of the row under its upstream name
RemapEveryColumn(row, field_map) == [k \in DOMAIN row |-> clean(row[k])]

\* _remap: the mapped keys present in the row, cleaned, then the passthrough
\* keys present in the row, copied as they are (no canonical name is the target
\* of two upstream names in any of the four tables)
remap(row, field_map) ==
    LET srcs == {s \in DOMAIN field_map : s \in DOMAIN row}
        pass == PassthroughKeys \cap DOMAIN row
    IN [k \in {field_map[s] : s \in srcs} \cup pass |->
           IF k \in pass THEN row[k]
           ELSE clean(row[CHOOSE s \in srcs : field_map[s] = k])]

\* dict.pop(key, None): the dict without the key
Without(row, k) == [c \in DOMAIN row \ {k} |-> row[c]]

\* dict[key] = value
With(row, k, v) == [c \in DOMAIN row \cup {k} |-> IF c = k THEN v ELSE row[c]]

----------------------------------------------------------------------------
(* Normalization of fetched rows *)

\* int(value): the integer of a number, of a digit text; an error otherwise
PyInt(v) ==
    CASE v[1] = "num" -> [ok |-> TRUE, val |-> v[2]]
      [] v[1] = "dec" -> [ok |-> TRUE, val |-> v[2] \div 10]
      [] v[1] = "str" -> ParseInt(v[2])
      [] OTHER        -> [ok |-> FALSE, val |-> 0]

\* float(value) in tenths; nan stays nan; an error for None and for other text
PyFloat(v) ==
    CASE v[1] = "num" -> [ok |-> TRUE, nan |-> FALSE, val |-> 10 * v[2]]
      [] v[1] = "dec" -> [ok |-> TRUE, nan |-> FALSE, val |-> v[2]]
      [] v[1] = "nan" -> [ok |-> TRUE, nan |-> TRUE, val |-> 0]
      [] v[1] = "str" -> [ok |-> ParseInt(v[2]).ok, nan |-> FALSE,
                          val |-> 10 * ParseInt(v[2]).val]
      [] OTHER        -> [ok |-> FALSE, nan |-> FALSE, val |-> 0]

\* _map_record: net_rtg = round(float(adj_o) - float(adj_d), 1) when both keys
\* are present; a TypeError or ValueError leaves the row as it is
map_record(raw) ==
    IF "adj_o" \in DOMAIN raw /\ "adj_d" \in DOMAIN raw
    THEN LET o == PyFloat(raw["adj_o"])
             d == PyFloat(raw["adj_d"])
         IN IF o.ok /\ d.ok
            THEN With(raw, "net_rtg",
                      IF o.nan \/ d.nan THEN NaN ELSE Dec(o.val - d.val))
            ELSE raw
    ELSE raw

\* the row loop body of fetch_and_store_players (and of get_player_season);
\* i is the 0-based position of the row
ResolvePlayer(row, i) ==
    LET m0 == remap(row, PLAYER_FIELD_MAP)
        tid == Get(m0, "torvik_id")
        mapped == Without(m0, "torvik_id")
    IN IF "player_id" \in DOMAIN mapped THEN [ok |-> TRUE, row |-> mapped]
       ELSE IF ~IsNull(tid)
       THEN [ok |-> PyInt(tid).ok,
             row |-> With(mapped, "player_id", Str(IntToStr(PyInt(tid).val)))]
       ELSE LET name_slug == Slug(GetOr(mapped, "name", Str(<<"p">> \o NatToStr(i))))
                team_slug == Slug(GetOr(mapped, "team", Str(<<"u", "n", "k">>)))
            IN [ok |-> TRUE,
                row |-> With(mapped, "player_id",
                             Str(name_slug \o <<"_">> \o team_slug))]

\* the row loop body of fetch_and_store_teams
ResolveTeam(raw) ==
    LET row == map_record(raw)
        m0 == remap(row, TEAM_FIELD_MAP)
        m1 == IF "team_id" \in DOMAIN m0 THEN m0
              ELSE With(m0, "team_id", Str(Slug(GetOr(m0, "name", Str(<<"u", "n", "k">>)))))
    IN IF "net_rtg" \in DOMAIN row THEN With(m1, "net_rtg", row["net_rtg"]) ELSE m1

\* the date conversion of the game loaders: a non-text date is isoformat()ed,
\* which only a date has
ConvertDate(mapped) ==
    LET d == Get(mapped, "date")
    IN IF IsNull(d) \/ d[1] = "str" THEN [ok |-> TRUE, row |-> mapped]
       ELSE IF d[1] = "date"
       THEN [ok |-> TRUE, row |-> With(mapped, "date", Str(isoformat(d)))]
       ELSE [ok |-> FALSE, row |-> mapped]

\* the row loop body of fetch_and_store_games; keep is FALSE for a row
\* without an id (the "continue")
ResolveGame(row) ==
    LET mapped == remap(row, GAME_LOG_FIELD_MAP)
        raw_id == Get(row, "id")
    IN IF IsNull(raw_id) THEN [ok |-> TRUE, keep |-> FALSE, row |-> mapped]
       ELSE LET withId == With(mapped, "player_id", Str(IntToStr(PyInt(raw_id).val)))
            IN [ok |-> PyInt(raw_id).ok /\ ConvertDate(withId).ok, keep |-> TRUE,
                row |-> ConvertDate(withId).row]

\* a loop body that derives every team_id from the name, without the lookup
TeamGameBySlug(row, name_to_id) ==
    LET m0 == remap(row, TEAM_GAME_BOX_FIELD_MAP)
        team_name == Get(m0, "team_name")
        mapped == Without(m0, "team_name")
    IN IF ~Truthy(team_name) THEN [ok |-> TRUE, keep |-> FALSE, row |-> mapped]
       ELSE IF team_name[1] # "str" THEN [ok |-> FALSE, keep |-> TRUE, row |-> mapped]
       ELSE [ok |-> ConvertDate(With(mapped, "team_id", Str(Slug(team_name)))).ok,
             keep |-> TRUE,
             row |-> ConvertDate(With(mapped, "team_id", Str(Slug(team_name)))).row]

\* the row loop body of fetch_and_store_team_games; name_to_id is the lookup
\* built from the team_seasons rows of the year
ResolveTeamGame(row, name_to_id) ==
    LET m0 == remap(row, TEAM_GAME_BOX_FIELD_MAP)
        team_name == Get(m0, "team_name")
        mapped == Without(m0, "team_name")
    IN IF ~Truthy(team_name) THEN [ok |-> TRUE, keep |-> FALSE, row |-> mapped]
       ELSE IF team_name[1] # "str" THEN [ok |-> FALSE, keep |-> TRUE, row |-> mapped]
       ELSE LET found == IF team_name \in DOMAIN name_to_id
                         THEN name_to_id[team_name] ELSE Null
                team_id == IF Truthy(found) THEN found ELSE Str(Slug(team_name))
                withId == With(mapped, "team_id", team_id)
            IN [ok |-> ConvertDate(withId).ok, keep |-> TRUE,
                row |-> ConvertDate(withId).row]

\* the rows a loop keeps, in order
RECURSIVE Kept(_)
Kept(rs) ==
    IF rs = <<>> THEN <<>>
    ELSE (IF rs[1].keep THEN <<rs[1].row>> ELSE <<>>) \o Kept(Tail(rs))

----------------------------------------------------------------------------
(* Relational store: a table is the set of its rows, a row maps every column *)
(* of the table to a value                                                   *)

PlayerSeasonKey == {"player_id", "year"}

\* the columns of INSERT INTO player_seasons (all columns of the table)
PlayerSeasonCols ==
    {"player_id", "year", "name", "team", "conference", "position",
     "year_in_school", "height", "games", "mpg", "pts", "reb", "ast", "stl", "blk",
     "tov", "usg_pct", "ts_pct", "efg_pct", "ftr", "fg_pct", "three_pct", "ft_pct",
     "ortg", "drtg", "bpm", "obpm", "dbpm", "porpag"}

\* the SET list of its ON CONFLICT (player_id, year) DO UPDATE
PlayerSeasonSetCols ==
    {"name", "team", "conference", "position", "year_in_school", "height", "games",
     "mpg", "pts", "reb", "ast", "stl", "blk", "tov", "usg_pct", "ts_pct", "efg_pct",
     "ftr", "fg_pct", "three_pct", "ft_pct", "ortg", "drtg", "bpm", "obpm", "dbpm",
     "porpag"}

TeamSeasonKey == {"team_id", "year"}

\* the derived columns of team_seasons: record and the four factors
TeamSeasonDerivedCols ==
    {"record", "wins", "losses", "efg_pct", "opp_efg_pct", "tov_pct", "opp_tov_pct",
     "orb_pct", "drb_pct", "ftr", "opp_ftr"}

\* the columns of INSERT INTO team_seasons
TeamSeasonInsertCols ==
    {"team_id", "year", "name", "conference", "ortg", "drtg", "net_rtg", "pace",
     "barthag", "wab", "nc_sos", "ov_sos", "seed"}

\* all columns of CREATE TABLE team_seasons
TeamSeasonCols == TeamSeasonInsertCols \cup TeamSeasonDerivedCols

\* a SET list that also takes record, wins and losses from the incoming row
SetColsWithRecord ==
    {"name", "conference", "ortg", "drtg", "net_rtg", "pace", "barthag", "wab",
     "nc_sos", "ov_sos", "seed", "record", "wins", "losses"}

\* a SET list that leaves out wab
SetColsWithoutWab ==
    {"name", "conference", "ortg", "drtg", "net_rtg", "pace", "barthag", "nc_sos",
     "ov_sos", "seed"}

\* the SET list of its ON CONFLICT (team_id, year) DO UPDATE
TeamSeasonSetCols ==
    {"name", "conference", "ortg", "drtg", "net_rtg", "pace", "barthag", "wab",
     "nc_sos", "ov_sos", "seed"}

TeamGameKey == {"team_id", "year", "game_id"}

\* the columns of INSERT INTO team_games (all columns of the table)
TeamGameCols ==
    {"team_id", "year", "game_id", "date", "type", "location", "result", "opponent",
     "opp_conf", "min", "pos", "pts", "fgm", "fga", "tpm", "tpa", "ftm", "fta",
     "oreb", "dreb", "reb", "ast", "stl", "blk", "tov", "opp_pts", "opp_fgm",
     "opp_fga", "opp_tpm", "opp_tpa", "opp_ftm", "opp_fta", "opp_oreb", "opp_dreb",
     "opp_reb", "opp_ast", "opp_stl", "opp_blk", "opp_tov"}

\* PRIMARY KEY (player_id, year, date, opponent, game_num): no column of it is null
PlayerGameKey == {"player_id", "year", "date", "opponent", "game_num"}

\* the columns of INSERT INTO player_games; game_num is filled by its SERIAL
PlayerGameInsertCols ==
    {"player_id", "year", "date", "opponent", "result", "location", "min", "pts",
     "reb", "ast", "stl", "blk", "tov", "two_m", "two_a", "three_m", "three_a",
     "ftm", "fta", "ortg", "usg", "efg", "ts", "bpm_game", "obpm_game", "dbpm_game",
     "poss"}

\* the tuple a loader builds for one row: row.get(column) for every inserted
\* column, the year parameter for year, NULL for a column the INSERT omits
Record(cols, year, row) ==
    [c \in cols |-> IF c = "year" THEN Num(year) ELSE Get(row, c)]

Records(cols, year, rows) == [i \in 1..Len(rows) |-> Record(cols, year, rows[i])]

SameKey(a, b, key) == \A c \in key : a[c] = b[c]

OfYear(table, year) == {r \in table : r["year"] = Num(year)}

\* a NOT NULL (or primary key) column holding NULL fails the statement
Violates(recs, key) == \E i \in 1..Len(recs) : \E c \in key : IsNull(recs[i][c])

\* a plain INSERT that adds the row beside the stored one
InsertBeside(table, rec, key, setCols) == table \cup {rec}

\* INSERT ... ON CONFLICT (key) DO UPDATE SET c = EXCLUDED.c for c in setCols
UpsertRow(table, rec, key, setCols) ==
    IF \E old \in table : SameKey(old, rec, key)
    THEN {IF SameKey(old, rec, key)
          THEN [c \in DOMAIN old |-> IF c \in setCols THEN rec[c] ELSE old[c]]
          ELSE old : old \in table}
    ELSE table \cup {rec}

\* INSERT ... ON CONFLICT (key) DO NOTHING
InsertOrSkip(table, rec, key) ==
    IF \E old \in table : SameKey(old, rec, key) THEN table ELSE table \cup {rec}

\* executemany: the statement once per record, in order
RECURSIVE UpsertAll(_, _, _, _)
UpsertAll(table, recs, key, setCols) ==
    IF recs = <<>> THEN table
    ELSE UpsertAll(UpsertRow(table, recs[1], key, setCols), Tail(recs), key, setCols)

RECURSIVE InsertOrSkipAll(_, _, _)
InsertOrSkipAll(table, recs, key) ==
    IF recs = <<>> THEN table
    ELSE InsertOrSkipAll(InsertOrSkip(table, recs[1], key), Tail(recs), key)

\* executemany of a plain INSERT into player_games: record i takes the next
\* value of the game_num sequence
InsertSerial(table, recs, seq) ==
    table \cup {With(recs[i], "game_num", Num(seq + i)) : i \in 1..Len(recs)}

\* upsert_player_seasons: nothing for an empty list; otherwise one executemany,
\* which either applies every record or, on an error, none
upsert_player_seasons(table, year, rows) ==
    LET recs == Records(PlayerSeasonCols, year, rows)
    IN IF rows = <<>> THEN [ok |-> TRUE, table |-> table, count |-> 0]
       ELSE IF Violates(recs, PlayerSeasonKey)
       THEN [ok |-> FALSE, table |-> table, count |-> 0]
       ELSE [ok |-> TRUE, count |-> Len(recs),
             table |-> UpsertAll(table, recs, PlayerSeasonKey, PlayerSeasonSetCols)]

\* upsert_team_seasons
upsert_team_seasons(table, year, rows) ==
    LET recs == Records(TeamSeasonCols, year,
                        [i \in 1..Len(rows) |->
                            [c \in DOMAIN rows[i] \cap TeamSeasonInsertCols |-> rows[i][c]]])
    IN IF rows = <<>> THEN [ok |-> TRUE, table |-> table, count |-> 0]
       ELSE IF Violates(recs, TeamSeasonKey)
       THEN [ok |-> FALSE, table |-> table, count |-> 0]
       ELSE [ok |-> TRUE, count |-> Len(recs),
             table |-> UpsertAll(table, recs, TeamSeasonKey, TeamSeasonSetCols)]

\* what a game-level upsert returns: 0 for an empty list, len(records) after
\* its executemany
ReturnedCount(rows) == IF rows = <<>> THEN 0 ELSE Len(rows)

\* DELETE FROM <game table> WHERE year = $1
DeleteYear(table, year) == table \ OfYear(table, year)

\* the executemany of upsert_team_games
InsertTeamGames(table, year, rows) ==
    LET recs == Records(TeamGameCols, year, rows)
    IN IF Violates(recs, TeamGameKey) THEN [ok |-> FALSE, table |-> table]
       ELSE [ok |-> TRUE, table |-> InsertOrSkipAll(table, recs, TeamGameKey)]

\* the executemany of upsert_player_games
InsertPlayerGames(table, year, rows, seq) ==
    LET recs == Records(PlayerGameInsertCols, year, rows)
    IN IF Violates(recs, PlayerGameKey \ {"game_num"})
       THEN [ok |-> FALSE, table |-> table, seq |-> seq]
       ELSE [ok |-> TRUE, table |-> InsertSerial(table, recs, seq),
             seq |-> seq + Len(recs)]

----------------------------------------------------------------------------
(* Aggregation Engine.  An SQL integer that may be NULL is a set: {} for   *)
(* NULL, {n} for n.  Box-score columns hold non-negative integers.         *)

IntOf(v) == IF v[1] = "num" THEN {v[2]} ELSE {}

RECURSIVE SumFn(_)
\* SUM over the rows of a group: NULL terms are skipped, no term gives NULL
SumFn(f) ==
    IF DOMAIN f = {} THEN {}
    ELSE LET r == CHOOSE r \in DOMAIN f : TRUE
             rest == SumFn([q \in DOMAIN f \ {r} |-> f[q]])
         IN IF f[r] = {} THEN rest
            ELSE IF rest = {} THEN f[r]
            ELSE {a + b : a \in f[r], b \in rest}

\* SUM(a) of a group
SumCol(games, a) == SumFn([r \in games |-> IntOf(r[a])])

\* SUM(a + 0.5*b), doubled
SumHalf(games, a, b) ==
    SumFn([r \in games |-> {2 * x + y : x \in IntOf(r[a]), y \in IntOf(r[b])}])

\* SUM(a + b)
SumPair(games, a, b) ==
    SumFn([r \in games |-> {x + y : x \in IntOf(r[a]), y \in IntOf(r[b])}])

\* SUM(a + 0.44*b + c), times 100
SumPoss(games, a, b, c) ==
    SumFn([r \in games |->
              {100 * x + 44 * y + 100 * z :
                  x \in IntOf(r[a]), y \in IntOf(r[b]), z \in IntOf(r[c])}])

\* NULLIF(x, 0)
NullIf0(x) == IF x = {0} THEN {} ELSE x

\* a / b rounded to the nearest integer, halves away from zero (a >= 0, b > 0)
RoundDiv(a, b) == (2 * a + b) \div (2 * b)

\* the ratio with NULLIF on the denominator only: a zero numerator gives 0.0
PctOfZero(n, nScale, d, dScale) ==
    LET dd == NullIf0(d)
    IN IF n = {} \/ dd = {} THEN Null
       ELSE LET a == CHOOSE x \in n : TRUE
                b == CHOOSE x \in dd : TRUE
            IN Dec(RoundDiv(1000 * a * dScale, b * nScale))

\* ROUND(CAST(NULLIF(num, 0) / NULLIF(den, 0) * 100 AS NUMERIC), 1) where the
\* sums are num = n / nScale and den = d / dScale; the result in tenths
Pct(n, nScale, d, dScale) ==
    LET nn == NullIf0(n)
        dd == NullIf0(d)
    IN IF nn = {} \/ dd = {} THEN Null
       ELSE LET a == CHOOSE x \in nn : TRUE
                b == CHOOSE x \in dd : TRUE
            IN Dec(RoundDiv(1000 * a * dScale, b * nScale))

\* COUNT(*) FILTER (WHERE result = letter)
CountResult(games, letter) ==
    Cardinality({r \in games : r["result"] = Str(<<letter>>)})

\* one row of the agg subquery joined to its team_seasons row: the SET list of
\* the UPDATE
Aggregated(old, games) ==
    LET wins == CountResult(games, "W")
        losses == CountResult(games, "L")
        new == [record |-> Str(NatToStr(wins) \o <<"-">> \o NatToStr(losses)),
                wins |-> Num(wins),
                losses |-> Num(losses),
                efg_pct |-> Pct(SumHalf(games, "fgm", "tpm"), 2, SumCol(games, "fga"), 1),
                opp_efg_pct |-> Pct(SumHalf(games, "opp_fgm", "opp_tpm"), 2,
                                    SumCol(games, "opp_fga"), 1),
                tov_pct |-> Pct(SumCol(games, "tov"), 1,
                                SumPoss(games, "fga", "fta", "tov"), 100),
                opp_tov_pct |-> Pct(SumCol(games, "opp_tov"), 1,
                                    SumPoss(games, "opp_fga", "opp_fta", "opp_tov"), 100),
                orb_pct |-> Pct(SumCol(games, "oreb"), 1,
                                SumPair(games, "oreb", "opp_dreb"), 1),
                drb_pct |-> Pct(SumCol(games, "dreb"), 1,
                                SumPair(games, "dreb", "opp_oreb"), 1),
                ftr |-> Pct(SumCol(games, "fta"), 1, SumCol(games, "fga"), 1),
                opp_ftr |-> Pct(SumCol(games, "opp_fta"), 1, SumCol(games, "opp_fga"), 1)]
    IN [c \in DOMAIN old |-> IF c \in DOMAIN new THEN new[c] ELSE old[c]]

\* the rows of team_games of one group of GROUP BY team_id, WHERE year = $1
GamesOf(games, team_id, year) == {g \in OfYear(games, year) : g["team_id"] = team_id}

\* update_team_season_aggregates: UPDATE team_seasons ... FROM (... GROUP BY
\* team_id) agg WHERE ts.team_id = agg.team_id AND ts.year = $1: a row is
\* updated when its team has a group, that is at least one game of the year
update_team_season_aggregates(seasons, games, year) ==
    {IF r["year"] = Num(year) /\ GamesOf(games, r["team_id"], year) # {}
     THEN Aggregated(r, GamesOf(games, r["team_id"], year))
     ELSE r : r \in seasons}

----------------------------------------------------------------------------
(* Inputs: the provider's snapshots, the arguments of a refresh *)

\* the years of all refreshes of one store, counted with repetition: the
\* iterations of "for year in years" asked for
MaxIterations == 2

Years == {2024, 2025}

\* the year lists a refresh is started with (--seasons Y, --seasons Y Y+1)
YearLists == {<<2024>>, <<2024, 2025>>}

\* the snapshots the provider may hold; "C" is "A" after most box scores and
\* the identified game logs have gone
Datasets == {"A", "B", "C"}

Duke == <<"D", "u", "k", "e">>

NCState == <<"N", "C", " ", "S", "t">>

RawPlayer(id, name, team, v) ==
    [id |-> id, player |-> Str(name), team |-> Str(team), conf |-> Str(<<"A", "C", "C">>),
     pos |-> Str(<<"G">>), exp |-> Str(<<"S", "r">>), hgt |-> Str(<<"6", "-", "4">>),
     g |-> Num(30 + v), mpg |-> Dec(300 + v), ppg |-> Dec(150 + v), rpg |-> Dec(50 + v),
     apg |-> Dec(40 + v), spg |-> Dec(10 + v), bpg |-> Dec(v), tov |-> Dec(20 + v),
     usg |-> Dec(220 + v), ts |-> Dec(580 + v), efg |-> Dec(540 + v), ftr |-> Dec(300 + v),
     ortg |-> Dec(1100 + v), drtg |-> Dec(1000 + v), bpm |-> Dec(50 + v),
     obpm |-> Dec(30 + v), dbpm |-> Dec(20 + v), porpag |-> Dec(35 + v),
     fg_pct |-> Dec(4 + v), three_pct |-> NaN, ft_pct |-> Dec(7), rec_rank |-> Num(v)]

RawTeam(name, o, d, v) ==
    [team |-> Str(name), conf |-> Str(<<"A", "C", "C">>), adj_o |-> Dec(o),
     adj_d |-> Dec(d), adj_t |-> Dec(680 + v), barthag |-> Dec(9), wab |-> Dec(30 + v),
     nc_cur_sos |-> Dec(5), ov_cur_sos |-> Dec(6), seed |-> Num(v), rk |-> Num(v)]

RawGameLog(id, day, v) ==
    [id |-> id, date |-> Date(2024, 1, day), opp |-> Str(NCState), result |-> Str(<<"W">>),
     loc |-> Str(<<"H">>), min |-> Num(30), pts |-> Num(10 + v), reb |-> Num(5),
     ast |-> Num(4), stl |-> Num(1), blk |-> Num(0), tov |-> Num(2), two_m |-> Num(3),
     two_a |-> Num(6), three_m |-> Num(1), three_a |-> Num(4), ftm |-> Num(1),
     fta |-> Num(2), ortg |-> Dec(1100), usg |-> Dec(220), efg |-> Dec(500),
     ts |-> Dec(550), bpm |-> Dec(30), obpm |-> Dec(20), dbpm |-> Dec(10),
     poss |-> Dec(600), tt |-> Str(Duke)]

RawBox(game_id, team, result, own, opp) ==
    [game_id |-> game_id, date |-> Date(2024, 1, 15), type |-> Str(<<"r", "e", "g">>),
     location |-> Str(<<"H">>), result |-> Str(<<result>>), team |-> team,
     opp |-> Str(<<"U", "N", "C">>), opp_conf |-> Str(<<"A", "C", "C">>),
     min |-> Num(200), pos |-> Num(70), pts |-> Num(own[1] * 2 + own[3]),
     fgm |-> Num(own[1]), fga |-> Num(own[2]), tpm |-> Num(own[3]), tpa |-> Num(own[4]),
     ftm |-> Num(own[5]), fta |-> Num(own[6]), oreb |-> Num(own[7]), dreb |-> Num(own[8]),
     reb |-> Num(own[7] + own[8]), ast |-> Num(12), stl |-> Num(6), blk |-> Num(3),
     to |-> Num(own[9]), opp_pts |-> Num(opp[1] * 2 + opp[3]),
     opp_fgm |-> Num(opp[1]), opp_fga |-> Num(opp[2]), opp_tpm |-> Num(opp[3]),
     opp_tpa |-> Num(opp[4]), opp_ftm |-> Num(opp[5]), opp_fta |-> Num(opp[6]),
     opp_oreb |-> Num(opp[7]), opp_dreb |-> Num(opp[8]),
     opp_reb |-> Num(opp[7] + opp[8]), opp_ast |-> Num(10), opp_stl |-> Num(5),
     opp_blk |-> Num(2), opp_to |-> Num(opp[9]), attendance |-> Num(9000)]

\* box-score lines <<fgm, fga, tpm, tpa, ftm, fta, oreb, dreb, tov>>
GameA == RawBox(Str(<<"g", "1">>), Str(Duke), "W",
                <<20, 50, 5, 15, 12, 20, 8, 22, 10>>, <<22, 55, 6, 18, 10, 18, 9, 25, 12>>)

GameB == RawBox(Str(<<"g", "2">>), Str(Duke), "L",
                <<25, 55, 8, 20, 10, 15, 10, 24, 8>>, <<24, 50, 7, 16, 14, 20, 7, 20, 14>>)

\* a game without a turnover and without an offensive rebound
GameC == RawBox(Str(<<"g", "3">>), Str(NCState), "W",
                <<21, 40, 3, 10, 5, 8, 0, 20, 0>>, <<18, 44, 4, 12, 6, 9, 5, 19, 7>>)

\* the same game_id once more, with another line
GameC2 == RawBox(Str(<<"g", "3">>), Str(NCState), "L",
                 <<19, 42, 3, 10, 5, 8, 2, 20, 3>>, <<18, 44, 4, 12, 6, 9, 5, 19, 7>>)

\* a row without a team name
GameNameless == RawBox(Str(<<"g", "4">>), Null, "W",
                       <<20, 50, 5, 15, 12, 20, 8, 22, 10>>, <<22, 55, 6, 18, 10, 18, 9, 25, 12>>)

\* a row without an id
GameLogNoId ==
    [c \in DOMAIN RawGameLog(Null, 15, 1) \ {"id"} |-> RawGameLog(Null, 15, 1)[c]]

\* what the provider returns for an endpoint when it holds the given dataset
Upstream(dataset, endpoint) ==
    CASE endpoint = "players" ->
           IF dataset \in {"A", "C"}
           THEN <<RawPlayer(Num(7), <<"A", "l">>, Duke, 1),
                  [c \in DOMAIN RawPlayer(Null, <<"B", "o">>, NCState, 1) \ {"id"} |->
                      RawPlayer(Null, <<"B", "o">>, NCState, 1)[c]]>>
           ELSE <<With(RawPlayer(Num(7), <<"A", "l">>, Duke, 2), "exp", Str(<<"J", "r">>)),
                  RawPlayer(Num(7), <<"A", "l">>, NCState, 3)>>
      [] endpoint = "teams" ->
           IF dataset \in {"A", "C"}
           THEN <<RawTeam(Duke, 1105, 952, 1)>>
           ELSE <<RawTeam(Duke, 1120, 940, 2),
                  With(RawTeam(NCState, 1010, 1000, 2), "team_id", Str(<<"n", "c", "s">>)),
                  RawTeam(Duke, 1121, 941, 3)>>
      [] endpoint = "player_games" ->
           IF dataset = "A"
           THEN <<RawGameLog(Num(7), 15, 1), RawGameLog(Num(7), 15, 1),
                  RawGameLog(Num(8), 20, 2)>>
           ELSE <<GameLogNoId, RawGameLog(Null, 15, 1)>>
      [] OTHER ->
           IF dataset = "A" THEN <<GameA, GameB, GameC, GameC2>>
           ELSE IF dataset = "B" THEN <<GameNameless>>
           ELSE <<GameC>>

----------------------------------------------------------------------------
(* The refresh job: run(years, include_games), one step per await *)

NoUpsert == [tbl |-> "none", year |-> 0, rows |-> <<>>, before |-> {}, others |-> {},
             state |-> "none"]

\* the year and dataset of the last season upsert of each table, and whether
\* the upsert of this iteration repeated it
NoLast == [players |-> <<0, "none">>, teams |-> <<0, "none">>]

NoRepeat == [players |-> FALSE, teams |-> FALSE]

NoRead == [tbl |-> "none", year |-> 0, n |-> 0, torn |-> FALSE]

\* no helper under evaluation, an empty _season_cache, no request in flight
NoCall == [kind |-> "none", pc |-> "off"]

NoRows == [y \in {} |-> <<>>]

NoClients == <<>>

ConvOff == [pc |-> "off", kind |-> "none", year |-> 0, label |-> <<>>, ok |-> TRUE,
            mid_year |-> 0, mid_label |-> <<>>, out_year |-> 0, out_label |-> <<>>]

Init ==
    /\ player_seasons = {}
    /\ team_seasons = {}
    /\ player_games = {}
    /\ team_games = {}
    /\ game_num_seq = 0
    /\ run = [pc |-> "idle", n |-> 0, years |-> <<>>, include_games |-> FALSE, yi |-> 0,
              dataset |-> "A", cause |-> "none"]
    /\ tasks = [players |-> "none", teams |-> "none"]
    /\ pending = [players |-> <<>>, teams |-> <<>>, games |-> <<>>, team_games |-> <<>>]
    /\ hist = [failed |-> {}, steps |-> {}, upsert |-> NoUpsert, aggregated |-> {},
               loaded |-> {}, last |-> NoLast, repeat |-> NoRepeat]
    /\ reader = NoRead
    /\ conv = ConvOff
    /\ helper = NoCall
    /\ season_cache = NoRows
    /\ client = NoClients

cur_year == run.years[run.yi]

\* a gather that waits for both tasks and returns their exceptions as results
GatherAll(t) ==
    IF t.players \in {"done", "failed"} /\ t.teams \in {"done", "failed"} THEN "return"
    ELSE "wait"

\* a wait that returns as soon as one of the two tasks is done
GatherFirst(t) ==
    IF t.players = "failed" \/ t.teams = "failed" THEN "raise"
    ELSE IF t.players = "done" \/ t.teams = "done" THEN "return"
    ELSE "wait"

\* asyncio.gather(players_task, teams_task): the first exception is raised to
\* run, otherwise it returns when both tasks are done
GatherOutcome(t) ==
    IF t.players = "failed" \/ t.teams = "failed" THEN "raise"
    ELSE IF t.players = "done" /\ t.teams = "done" THEN "return"
    ELSE "wait"

\* a per-game fetch without the except clause: the exception leaves run
FetchFailureRaised == "raise"

\* the except clause around the fetch of a per-game endpoint: print and return 0
PerGameFetchFailure == "skip"

\* an exception leaves run: the process ends, pending tasks are cancelled
Abort(cause) == run' = [run EXCEPT !.pc = "aborted", !.cause = cause]

Goto(pc) == run' = [run EXCEPT !.pc = pc]

Step(name) == [hist EXCEPT !.steps = @ \cup {<<name, cur_year>>}]

\* python -m scripts.refresh: create_pool, init_schema (CREATE TABLE IF NOT
\* EXISTS), then the first iteration creates the two season tasks
RunStart ==
    /\ run.pc \in {"idle", "done", "aborted"}
    /\ \E ys \in YearLists, g \in BOOLEAN, d \in Datasets :
          /\ run.n + Len(ys) <= MaxIterations
          /\ run' = [pc |-> "season", n |-> run.n + Len(ys), years |-> ys,
                     include_games |-> g, yi |-> 1, dataset |-> d, cause |-> "none"]
    /\ tasks' = [players |-> "fetch", teams |-> "fetch"]
    /\ pending' = [players |-> <<>>, teams |-> <<>>, games |-> <<>>, team_games |-> <<>>]
    /\ hist' = [hist EXCEPT !.failed = {}, !.steps = {}, !.upsert = NoUpsert,
                            !.repeat = NoRepeat]
    /\ reader' = NoRead
    /\ UNCHANGED <<storeVars, sideVars>>

\* a loader that serves the rows of the Season Cache when it holds the year
PlayersThroughCache(cache, year, dataset) ==
    IF year \in DOMAIN cache
    THEN [i \in 1..Len(cache[year]) |-> [ok |-> TRUE, row |-> cache[year][i]]]
    ELSE [i \in 1..Len(Upstream(dataset, "players")) |->
             ResolvePlayer(Upstream(dataset, "players")[i], i - 1)]

\* the rows fetch_and_store_players normalizes: those the provider returns for
\* the year, whatever the Season Cache holds
RefreshedPlayers(cache, year, dataset) ==
    LET rows_raw == Upstream(dataset, "players")
    IN [i \in 1..Len(rows_raw) |-> ResolvePlayer(rows_raw[i], i - 1)]

\* fetch_and_store_players up to its upsert: the fetch returns or raises, then
\* the rows are normalized
PlayersFetch ==
    /\ run.pc = "season" /\ tasks.players = "fetch"
    /\ \E fetched \in BOOLEAN :
          LET res == RefreshedPlayers(season_cache, cur_year, run.dataset)
          IN IF ~fetched
             THEN /\ tasks' = [tasks EXCEPT !.players = "failed"]
                  /\ hist' = [hist EXCEPT !.failed = @ \cup {<<"players", cur_year>>}]
                  /\ UNCHANGED pending
             ELSE IF \E i \in 1..Len(res) : ~res[i].ok
             THEN /\ tasks' = [tasks EXCEPT !.players = "failed"]
                  /\ UNCHANGED <<hist, pending>>
             ELSE /\ tasks' = [tasks EXCEPT !.players = "store"]
                  /\ pending' = [pending EXCEPT !.players = [i \in 1..Len(res) |-> res[i].row]]
                  /\ UNCHANGED hist
    /\ UNCHANGED <<storeVars, run, reader, sideVars>>

\* async with pool.acquire(): upsert_player_seasons
PlayersStore ==
    /\ run.pc = "season" /\ tasks.players = "store"
    /\ LET res == upsert_player_seasons(player_seasons, cur_year, pending.players)
       IN IF res.ok
             THEN /\ player_seasons' = res.table
                  /\ tasks' = [tasks EXCEPT !.players = "done"]
                  /\ hist' = [Step("players") EXCEPT
                                !.repeat.players = (hist.last.players = <<cur_year, run.dataset>>),
                                !.last.players = <<cur_year, run.dataset>>]
             ELSE /\ tasks' = [tasks EXCEPT !.players = "failed"]
                  /\ UNCHANGED <<player_seasons, hist>>
    /\ UNCHANGED <<team_seasons, player_games, team_games, game_num_seq, run, pending,
                   reader, sideVars>>

\* fetch_and_store_teams up to its upsert
TeamsFetch ==
    /\ run.pc = "season" /\ tasks.teams = "fetch"
    /\ \E fetched \in BOOLEAN :
          LET rows_raw == Upstream(run.dataset, "teams")
          IN IF ~fetched
             THEN /\ tasks' = [tasks EXCEPT !.teams = "failed"]
                  /\ hist' = [hist EXCEPT !.failed = @ \cup {<<"teams", cur_year>>}]
                  /\ UNCHANGED pending
             ELSE /\ tasks' = [tasks EXCEPT !.teams = "store"]
                  /\ pending' = [pending EXCEPT
                                   !.teams = [i \in 1..Len(rows_raw) |-> ResolveTeam(rows_raw[i])]]
                  /\ UNCHANGED hist
    /\ UNCHANGED <<storeVars, run, reader, sideVars>>

\* async with pool.acquire(): upsert_team_seasons
TeamsStore ==
    /\ run.pc = "season" /\ tasks.teams = "store"
    /\ LET res == upsert_team_seasons(team_seasons, cur_year, pending.teams)
       IN IF res.ok
             THEN /\ team_seasons' = res.table
                  /\ tasks' = [tasks EXCEPT !.teams = "done"]
                  /\ hist' = [Step("teams") EXCEPT
                                !.repeat.teams = (hist.last.teams = <<cur_year, run.dataset>>),
                                !.last.teams = <<cur_year, run.dataset>>]
             ELSE /\ tasks' = [tasks EXCEPT !.teams = "failed"]
                  /\ UNCHANGED <<team_seasons, hist>>
    /\ UNCHANGED <<player_seasons, player_games, team_games, game_num_seq, run, pending,
                   reader, sideVars>>

\* await asyncio.gather(...) returns: on to the per-game steps, or to the end
\* of the iteration with --no-games
GatherReturn ==
    /\ run.pc = "season" /\ GatherOutcome(tasks) = "return"
    /\ Goto(IF run.include_games THEN "pgames" ELSE "year_end")
    /\ UNCHANGED <<storeVars, tasks, pending, hist, reader, sideVars>>

\* await asyncio.gather(...) raises the exception of a failed task
GatherRaise ==
    /\ run.pc = "season" /\ GatherOutcome(tasks) = "raise"
    /\ Abort("season")
    /\ UNCHANGED <<storeVars, tasks, pending, hist, reader, sideVars>>

\* the lookup {name: team_id} built from SELECT team_id, name FROM
\* team_seasons WHERE year = $1; with two rows of one name the later row of an
\* unordered result wins, so every choice is possible
NameToIdChoices(existing) ==
    LET names == {r["name"] : r \in existing}
        ids == {r["team_id"] : r \in existing}
    IN {f \in [names -> ids] :
           \A nm \in names : \E r \in existing : r["name"] = nm /\ r["team_id"] = f[nm]}

\* fetch_and_store_games up to upsert_player_games: the fetch (caught when it
\* raises), the empty check, the row loop
GamesFetch ==
    /\ run.pc = "pgames"
    /\ \E fetched \in BOOLEAN :
          LET rows_raw == Upstream(run.dataset, "player_games")
              res == [i \in 1..Len(rows_raw) |-> ResolveGame(rows_raw[i])]
          IN IF ~fetched
             THEN /\ IF PerGameFetchFailure = "skip" THEN Goto("tgames")
                     ELSE Abort("player_games")
                  /\ hist' = [Step("player_games") EXCEPT
                                !.failed = @ \cup {<<"player_games", cur_year>>}]
                  /\ UNCHANGED pending
             ELSE IF rows_raw = <<>>
             THEN /\ Goto("tgames")
                  /\ hist' = Step("player_games")
                  /\ UNCHANGED pending
             ELSE IF \E i \in 1..Len(res) : ~res[i].ok
             THEN /\ Abort("normalize")
                  /\ UNCHANGED <<hist, pending>>
             ELSE /\ Goto("pg_upsert")
                  /\ pending' = [pending EXCEPT !.games = Kept(res)]
                  /\ UNCHANGED hist
    /\ UNCHANGED <<storeVars, tasks, reader, sideVars>>

\* upsert_player_games up to its executemany: return 0 for an empty list,
\* otherwise DELETE FROM player_games WHERE year = $1 (its own statement, in no
\* transaction)
GamesDelete ==
    /\ run.pc = "pg_upsert"
    /\ LET call == [tbl |-> "player_games", year |-> cur_year, rows |-> pending.games,
                    before |-> OfYear(player_games, cur_year),
                    others |-> DeleteYear(player_games, cur_year), state |-> "running"]
       IN IF pending.games = <<>>
          THEN /\ Goto("tgames")
               /\ hist' = [Step("player_games") EXCEPT
                             !.upsert = [call EXCEPT !.state = "returned"]]
               /\ UNCHANGED player_games
          ELSE /\ player_games' = DeleteYear(player_games, cur_year)
               /\ Goto("pg_insert")
               /\ hist' = [hist EXCEPT !.upsert = call]
    /\ UNCHANGED <<player_seasons, team_seasons, team_games, game_num_seq, tasks, pending,
                   reader, sideVars>>

\* the executemany of upsert_player_games, then return len(records)
GamesInsert ==
    /\ run.pc = "pg_insert"
    /\ \E up \in BOOLEAN :
          LET res == InsertPlayerGames(player_games, cur_year, pending.games, game_num_seq)
          IN IF up /\ res.ok
             THEN /\ player_games' = res.table
                  /\ game_num_seq' = res.seq
                  /\ Goto("tgames")
                  /\ hist' = [Step("player_games") EXCEPT !.upsert.state = "returned"]
             ELSE /\ Abort("store")
                  /\ hist' = [hist EXCEPT !.upsert.state = "failed"]
                  /\ UNCHANGED <<player_games, game_num_seq>>
    /\ UNCHANGED <<player_seasons, team_seasons, team_games, tasks, pending, reader, sideVars>>

\* fetch_and_store_team_games up to upsert_team_games: the fetch (caught when
\* it raises), the empty check, the name lookup, the row loop
TeamGamesFetch ==
    /\ run.pc = "tgames"
    /\ \E fetched \in BOOLEAN :
          LET rows_raw == Upstream(run.dataset, "team_games")
          IN IF ~fetched
             THEN /\ IF PerGameFetchFailure = "skip" THEN Goto("year_end")
                     ELSE Abort("team_games")
                  /\ hist' = [Step("team_games") EXCEPT
                                !.failed = @ \cup {<<"team_games", cur_year>>}]
                  /\ UNCHANGED pending
             ELSE IF rows_raw = <<>>
             THEN /\ Goto("year_end")
                  /\ hist' = Step("team_games")
                  /\ UNCHANGED pending
             ELSE \E name_to_id \in NameToIdChoices(OfYear(team_seasons, cur_year)) :
                     LET res == [i \in 1..Len(rows_raw) |->
                                    ResolveTeamGame(rows_raw[i], name_to_id)]
                     IN IF \E i \in 1..Len(res) : ~res[i].ok
                        THEN /\ Abort("normalize")
                             /\ UNCHANGED <<hist, pending>>
                        ELSE /\ Goto("tg_upsert")
                             /\ pending' = [pending EXCEPT !.team_games = Kept(res)]
                             /\ UNCHANGED hist
    /\ UNCHANGED <<storeVars, tasks, reader, sideVars>>

\* upsert_team_games up to its executemany: return 0 for an empty list,
\* otherwise DELETE FROM team_games WHERE year = $1
TeamGamesDelete ==
    /\ run.pc = "tg_upsert"
    /\ LET call == [tbl |-> "team_games", year |-> cur_year, rows |-> pending.team_games,
                    before |-> OfYear(team_games, cur_year),
                    others |-> DeleteYear(team_games, cur_year), state |-> "running"]
       IN IF pending.team_games = <<>>
          THEN /\ Goto("tg_agg")
               /\ hist' = [hist EXCEPT !.upsert = [call EXCEPT !.state = "returned"]]
               /\ UNCHANGED team_games
          ELSE /\ team_games' = DeleteYear(team_games, cur_year)
               /\ Goto("tg_insert")
               /\ hist' = [hist EXCEPT !.upsert = call]
    /\ UNCHANGED <<player_seasons, team_seasons, player_games, game_num_seq, tasks, pending,
                   reader, sideVars>>

\* the executemany of upsert_team_games, then return len(records)
TeamGamesInsert ==
    /\ run.pc = "tg_insert"
    /\ \E up \in BOOLEAN :
          LET res == InsertTeamGames(team_games, cur_year, pending.team_games)
          IN IF up /\ res.ok
             THEN /\ team_games' = res.table
                  /\ Goto("tg_agg")
                  /\ hist' = [hist EXCEPT !.upsert.state = "returned",
                                          !.loaded = @ \cup {cur_year}]
             ELSE /\ Abort("store")
                  /\ hist' = [hist EXCEPT !.upsert.state = "failed"]
                  /\ UNCHANGED team_games
    /\ UNCHANGED <<player_seasons, team_seasons, player_games, game_num_seq, tasks, pending,
                   reader, sideVars>>

\* the UPDATE of update_team_season_aggregates
Aggregate ==
    /\ run.pc = "tg_agg"
    /\ team_seasons' = update_team_season_aggregates(team_seasons, team_games, cur_year)
    /\ Goto("tg_count")
    /\ hist' = [hist EXCEPT !.aggregated = @ \cup {cur_year}]
    /\ UNCHANGED <<player_seasons, player_games, team_games, game_num_seq, tasks, pending,
                   reader, sideVars>>

\* SELECT COUNT(*) ... WHERE wins IS NOT NULL, and fetch_and_store_team_games
\* returns
AggregateCount ==
    /\ run.pc = "tg_count"
    /\ Goto("year_end")
    /\ hist' = Step("team_games")
    /\ UNCHANGED <<storeVars, tasks, pending, reader, sideVars>>

\* the end of one iteration of "for year in years": the next year's tasks, or
\* pool.close() after the last year
YearEnd ==
    /\ run.pc = "year_end"
    /\ IF run.yi < Len(run.years)
       THEN /\ run' = [run EXCEPT !.pc = "season", !.yi = @ + 1]
            /\ tasks' = [players |-> "fetch", teams |-> "fetch"]
       ELSE /\ Goto("done")
            /\ UNCHANGED tasks
    /\ hist' = [hist EXCEPT !.upsert = NoUpsert, !.repeat = NoRepeat]
    /\ reader' = NoRead
    /\ UNCHANGED <<storeVars, pending, sideVars>>

\* a reader of a game table (GET /api/teams/{id}/games, /api/players/{id}/games)
\* selecting the rows of one year while a refresh may be running; torn records
\* that the read fell between the DELETE and the INSERT of that year's upsert
ReadGames ==
    /\ run.pc \in {"pg_upsert", "pg_insert", "tgames", "tg_upsert", "tg_insert", "tg_agg",
                  "tg_count", "aborted"}
    /\ \E tbl \in {"team_games", "player_games"}, y \in Years :
          reader' = [tbl |-> tbl, year |-> y,
                     n |-> Cardinality(OfYear(IF tbl = "team_games" THEN team_games
                                              ELSE player_games, y)),
                     torn |-> /\ hist.upsert.state = "running"
                              /\ hist.upsert.tbl = tbl
                              /\ hist.upsert.year = y]
    /\ UNCHANGED <<storeVars, run, tasks, pending, hist, sideVars>>

Next ==
    \/ RunStart
    \/ PlayersFetch
    \/ PlayersStore
    \/ TeamsFetch
    \/ TeamsStore
    \/ GatherReturn
    \/ GatherRaise
    \/ GamesFetch
    \/ GamesDelete
    \/ GamesInsert
    \/ TeamGamesFetch
    \/ TeamGamesDelete
    \/ TeamGamesInsert
    \/ Aggregate
    \/ AggregateCount
    \/ YearEnd

Spec == Init /\ [][Next]_vars

\* the refresh job with readers of the game tables beside it
NextWithReaders ==
    \/ Next
    \/ ReadGames

SpecReaders == Init /\ [][NextWithReaders]_vars

----------------------------------------------------------------------------
(* The Identifier Converter on its own: a label or a year is converted and *)
(* converted back                                                          *)

MinYear == 1000

MaxYear == 10001

\* the label of the season that starts in year a: "YYYY-YY"
SeasonLabel(a) == NatToStr(a) \o <<"-">> \o Pad2((a + 1) % 100)

\* the valid season labels of the form YYYY-YY
ValidLabels == {SeasonLabel(a) : a \in {b \in MinYear..(MaxYear - 1) : Len(NatToStr(b)) = 4}}

\* the texts a caller may pass as a season: every text of up to MaxTextLen
\* characters over digits, a letter and the separator
TextAlphabet == {"2", "0", "3", "a", "-"}

MaxTextLen == 4

SeasonTexts == UNION {[1..n -> TextAlphabet] : n \in 0..MaxTextLen}

InitConv ==
    /\ player_seasons = {}
    /\ team_seasons = {}
    /\ player_games = {}
    /\ team_games = {}
    /\ game_num_seq = 0
    /\ run = [pc |-> "idle", n |-> MaxIterations, years |-> <<>>, include_games |-> FALSE,
              yi |-> 0, dataset |-> "A", cause |-> "none"]
    /\ tasks = [players |-> "none", teams |-> "none"]
    /\ pending = [players |-> <<>>, teams |-> <<>>, games |-> <<>>, team_games |-> <<>>]
    /\ hist = [failed |-> {}, steps |-> {}, upsert |-> NoUpsert, aggregated |-> {},
               loaded |-> {}, last |-> NoLast, repeat |-> NoRepeat]
    /\ reader = NoRead
    /\ helper = NoCall
    /\ season_cache = NoRows
    /\ client = NoClients
    /\ \/ \E s \in ValidLabels : conv = [ConvOff EXCEPT !.pc = "in", !.kind = "label", !.label = s]
       \/ \E y \in MinYear..MaxYear : conv = [ConvOff EXCEPT !.pc = "in", !.kind = "year", !.year = y]
       \/ \E s \in SeasonTexts : conv = [ConvOff EXCEPT !.pc = "in", !.kind = "text", !.label = s]

\* season_to_year applied to the input label or text, or to the label made
\* from the input year
ConvSeasonToYear ==
    /\ \/ conv.kind \in {"label", "text"} /\ conv.pc = "in"
       \/ conv.kind = "year" /\ conv.pc = "mid"
    /\ LET r == season_to_year(IF conv.kind = "year" THEN conv.mid_label ELSE conv.label)
       IN conv' = IF conv.kind = "label"
                  THEN [conv EXCEPT !.pc = IF r.ok THEN "mid" ELSE "done", !.ok = r.ok,
                                    !.mid_year = r.val]
                  ELSE [conv EXCEPT !.pc = "done", !.ok = r.ok, !.out_year = r.val]
    /\ UNCHANGED <<storeVars, pipeVars, helper, season_cache, client>>

\* year_to_season applied to the input year, or to the year parsed from the
\* input label
ConvYearToSeason ==
    /\ \/ conv.kind = "year" /\ conv.pc = "in"
       \/ conv.kind = "label" /\ conv.pc = "mid"
    /\ conv' = IF conv.kind = "year"
               THEN [conv EXCEPT !.pc = "mid", !.mid_label = year_to_season(conv.year)]
               ELSE [conv EXCEPT !.pc = "done", !.out_label = year_to_season(conv.mid_year)]
    /\ UNCHANGED <<storeVars, pipeVars, helper, season_cache, client>>

NextConv ==
    \/ ConvSeasonToYear
    \/ ConvYearToSeason

SpecConv == InitConv /\ [][NextConv]_vars

----------------------------------------------------------------------------
(* Percentile Engine *)

HIGHER_IS_BETTER ==
    {"bpm", "obpm", "dbpm", "pts", "reb", "ast", "stl", "blk", "ts_pct", "usg_pct",
     "efg_pct", "ortg", "fg_pct", "three_pct", "ft_pct", "porpag", "mpg"}

LOWER_IS_BETTER == {"drtg", "tov"}

TEAM_HIGHER ==
    {"ortg", "net_rtg", "efg_pct", "opp_tov_pct", "orb_pct", "drb_pct", "barthag",
     "wab", "pace"}

TEAM_LOWER == {"drtg", "opp_efg_pct", "tov_pct", "opp_ftr", "ftr"}

\* a number in tenths, the scale on which two statistics are compared
Tenths(v) == IF v[1] = "num" THEN 10 * v[2] ELSE v[2]

\* a / b rounded down
FloorDiv(a, b) == a \div b

\* round(a / b) of Python 3 for a >= 0 and b > 0: the nearest integer, a tie
\* going to the even neighbour
PyRound(a, b) ==
    LET q == a \div b
        r == a % b
    IN IF 2 * r < b THEN q
       ELSE IF 2 * r > b THEN q + 1
       ELSE IF q % 2 = 0 THEN q ELSE q + 1

\* [p[stat] for p in population if p.get(stat) is not None]
PresentValues(population, stat) ==
    LET all == [i \in 1..Len(population) |-> Get(population[i], stat)]
        Present(v) == ~IsNull(v)
    IN SelectSeq(all, Present)

\* the comparison that counts nothing: a value strictly beyond the row's
StrictlyBetter(v, value, higher) ==
    IF higher THEN Tenths(v) < Tenths(value) ELSE Tenths(v) > Tenths(value)

\* v <= value for a higher-is-better statistic, v >= value for a lower one
NoBetter(v, value, higher) ==
    IF higher THEN Tenths(v) <= Tenths(value) ELSE Tenths(v) >= Tenths(value)

\* sum(1 for v in values if v <= value), or >= value
CountNoBetter(values, value, higher) ==
    Cardinality({i \in 1..Len(values) : NoBetter(values[i], value, higher)})

\* a percentile that is zero where the engine leaves it absent
PercentileOrZero(row, population, stat, higher) ==
    LET value == Get(row, stat)
        values == PresentValues(population, stat)
    IN IF IsNull(value) \/ values = <<>> THEN Num(0)
       ELSE Num(PyRound(100 * CountNoBetter(values, value, higher), Len(values)))

\* one turn of the loop over the statistics: the percentile of one statistic
percentile(row, population, stat, higher) ==
    LET value == Get(row, stat)
        values == PresentValues(population, stat)
    IN IF IsNull(value) THEN Null
       ELSE IF values = <<>> THEN Null
       ELSE Num(PyRound(100 * CountNoBetter(values, value, higher), Len(values)))

compute_percentiles(player, all_players) ==
    [stat \in HIGHER_IS_BETTER \cup LOWER_IS_BETTER |->
        percentile(player, all_players, stat, stat \in HIGHER_IS_BETTER)]

compute_team_percentiles(team, all_teams) ==
    [stat \in TEAM_HIGHER \cup TEAM_LOWER |->
        percentile(team, all_teams, stat, stat \in TEAM_HIGHER)]

\* no refresh under way and an empty store: the state in which a helper is
\* evaluated on its own
Quiescent ==
    /\ player_seasons = {}
    /\ team_seasons = {}
    /\ player_games = {}
    /\ team_games = {}
    /\ game_num_seq = 0
    /\ run = [pc |-> "idle", n |-> MaxIterations, years |-> <<>>, include_games |-> FALSE,
              yi |-> 0, dataset |-> "A", cause |-> "none"]
    /\ tasks = [players |-> "none", teams |-> "none"]
    /\ pending = [players |-> <<>>, teams |-> <<>>, games |-> <<>>, team_games |-> <<>>]
    /\ hist = [failed |-> {}, steps |-> {}, upsert |-> NoUpsert, aggregated |-> {},
               loaded |-> {}, last |-> NoLast, repeat |-> NoRepeat]
    /\ reader = NoRead

\* the season populations of the engine: up to MaxPop rows that carry one
\* statistic, one higher-is-better and one lower-is-better statistic that both
\* engines rank; a row has the key with a number, has it with None, or lacks it
MaxPop == 9

RowKinds(stat) ==
    <<[k \in {} |-> Null], [k \in {stat} |-> Null], [k \in {stat} |-> Num(1)],
      [k \in {stat} |-> Dec(15)]>>

\* the populations with c[j] rows of the j-th kind
Populations(stat) ==
    LET Rep(j, n) == [i \in 1..n |-> RowKinds(stat)[j]]
    IN {Rep(1, c[1]) \o Rep(2, c[2]) \o Rep(3, c[3]) \o Rep(4, c[4]) :
           c \in {d \in [1..4 -> 0..MaxPop] : d[1] + d[2] + d[3] + d[4] <= MaxPop}}

InitPct ==
    /\ Quiescent
    /\ conv = ConvOff
    /\ season_cache = NoRows
    /\ client = NoClients
    /\ \E engine \in {"player", "team"}, stat \in {"ortg", "drtg"} :
         \E j \in 1..4, population \in Populations(stat) :
           helper = [kind |-> "pct", pc |-> "in", engine |-> engine, stat |-> stat,
                     row |-> RowKinds(stat)[j], population |-> population,
                     result |-> <<>>]

\* _compute_percentiles(player, all_players)
ComputePercentiles ==
    /\ helper.kind = "pct" /\ helper.pc = "in" /\ helper.engine = "player"
    /\ helper' = [helper EXCEPT !.pc = "done",
                                !.result = compute_percentiles(helper.row, helper.population)]
    /\ UNCHANGED <<storeVars, pipeVars, conv, season_cache, client>>

\* _compute_team_percentiles(team, all_teams)
ComputeTeamPercentiles ==
    /\ helper.kind = "pct" /\ helper.pc = "in" /\ helper.engine = "team"
    /\ helper' = [helper EXCEPT !.pc = "done",
                                !.result = compute_team_percentiles(helper.row, helper.population)]
    /\ UNCHANGED <<storeVars, pipeVars, conv, season_cache, client>>

NextPct ==
    \/ ComputePercentiles
    \/ ComputeTeamPercentiles

SpecPct == InitPct /\ [][NextPct]_vars

----------------------------------------------------------------------------
(* The Field Mapper and the row loops of normalization on their own: one    *)
(* fetched row is mapped or normalized                                       *)

FieldMaps ==
    [player |-> PLAYER_FIELD_MAP, team |-> TEAM_FIELD_MAP,
     box |-> TEAM_GAME_BOX_FIELD_MAP, log |-> GAME_LOG_FIELD_MAP]

\* the row loop body of get_team_ratings
TeamRatingsRow(raw) ==
    LET row == map_record(raw)
        mapped == remap(row, TEAM_FIELD_MAP)
    IN IF "team_id" \in DOMAIN mapped THEN mapped
       ELSE With(mapped, "team_id", Str(Slug(GetOr(mapped, "name", Str(<<"u", "n", "k">>)))))

\* the row loop body of get_player_games; keep is FALSE for a row of another
\* player or without an id (the "continue")
PlayerGameRow(row, torvik_id) ==
    LET row_id == Get(row, "id")
        mapped == remap(row, GAME_LOG_FIELD_MAP)
        \* int(row.get(k) or 0)
        IntOrZero(k) ==
            IF Truthy(Get(row, k)) THEN PyInt(Get(row, k)) ELSE [ok |-> TRUE, val |-> 0]
        two_m == IntOrZero("two_m")
        two_a == IntOrZero("two_a")
        thr_m == IntOrZero("three_m")
        thr_a == IntOrZero("three_a")
    IN IF IsNull(row_id) THEN [ok |-> TRUE, keep |-> FALSE, row |-> mapped]
       ELSE IF ~PyInt(row_id).ok THEN [ok |-> FALSE, keep |-> FALSE, row |-> mapped]
       ELSE IF IntToStr(PyInt(row_id).val) # torvik_id
       THEN [ok |-> TRUE, keep |-> FALSE, row |-> mapped]
       ELSE [ok |-> two_m.ok /\ two_a.ok /\ thr_m.ok /\ thr_a.ok, keep |-> TRUE,
             row |-> With(mapped, "fg",
                          Str(IntToStr(two_m.val + thr_m.val) \o <<"-">>
                                \o IntToStr(two_a.val + thr_a.val)))]

\* the fetched rows are every row that has some of the keys of its kind, each
\* with one of the values
InitNorm ==
    /\ Quiescent
    /\ conv = ConvOff
    /\ season_cache = NoRows
    /\ client = NoClients
    /\ LET RowsOver(keys, values) == UNION {[d -> values] : d \in SUBSET keys}
           SomeText == Str(<<"A", " ", "b">>)
       IN \E kind \in {"remap", "team", "player", "game"} :
         \E via \in CASE kind = "remap"  -> DOMAIN FieldMaps
                      [] kind = "team"   -> {"get_team_ratings", "fetch_and_store_teams"}
                      [] kind = "player" -> {"get_player_season", "fetch_and_store_players"}
                      [] OTHER           -> {"get_player_games", "fetch_and_store_games"},
            row \in CASE kind = "remap" ->
                           RowsOver({"team", "pts", "extra", "player_id", "team_id"},
                                    {Null, NaN, Num(7), SomeText})
                      [] kind = "team" ->
                           RowsOver({"adj_o", "adj_d", "team", "team_id"},
                                    {Null, NaN, Dec(1105), Dec(952), SomeText})
                      [] kind = "player" ->
                           RowsOver({"id", "player", "team", "player_id"},
                                    {Null, Num(7), SomeText})
                      [] OTHER ->
                           RowsOver({"id", "date", "two_m"},
                                    {Null, NaN, Num(7), SomeText, Date(2024, 1, 5)}),
            i \in 0..1 :
           /\ kind # "player" => i = 0
           /\ helper = [kind |-> kind, pc |-> "in", via |-> via, row |-> row, i |-> i,
                        ok |-> TRUE, keep |-> TRUE, out |-> <<>>]

\* the outcome of one call: a raised exception leaves no row
Returned(r) ==
    [helper EXCEPT !.pc = "done", !.ok = r.ok, !.keep = r.keep,
                   !.out = IF r.ok THEN r.row ELSE <<>>]

\* _remap(row, field_map)
NormRemap ==
    /\ helper.kind = "remap" /\ helper.pc = "in"
    /\ helper' = Returned([ok |-> TRUE, keep |-> TRUE,
                           row |-> remap(helper.row, FieldMaps[helper.via])])
    /\ UNCHANGED <<storeVars, pipeVars, conv, season_cache, client>>

\* one turn of the loop of get_team_ratings
NormTeamRatings ==
    /\ helper.kind = "team" /\ helper.pc = "in" /\ helper.via = "get_team_ratings"
    /\ helper' = Returned([ok |-> TRUE, keep |-> TRUE, row |-> TeamRatingsRow(helper.row)])
    /\ UNCHANGED <<storeVars, pipeVars, conv, season_cache, client>>

\* one turn of the loop of fetch_and_store_teams
NormTeams ==
    /\ helper.kind = "team" /\ helper.pc = "in" /\ helper.via = "fetch_and_store_teams"
    /\ helper' = Returned([ok |-> TRUE, keep |-> TRUE, row |-> ResolveTeam(helper.row)])
    /\ UNCHANGED <<storeVars, pipeVars, conv, season_cache, client>>

\* one turn of the loop of get_player_season or of fetch_and_store_players
NormPlayers ==
    /\ helper.kind = "player" /\ helper.pc = "in"
    /\ LET r == ResolvePlayer(helper.row, helper.i)
       IN helper' = Returned([ok |-> r.ok, keep |-> TRUE, row |-> r.row])
    /\ UNCHANGED <<storeVars, pipeVars, conv, season_cache, client>>

\* one turn of the loop of fetch_and_store_games
NormGames ==
    /\ helper.kind = "game" /\ helper.pc = "in" /\ helper.via = "fetch_and_store_games"
    /\ helper' = Returned(ResolveGame(helper.row))
    /\ UNCHANGED <<storeVars, pipeVars, conv, season_cache, client>>

\* one turn of the loop of get_player_games for the player "7"
NormPlayerGames ==
    /\ helper.kind = "game" /\ helper.pc = "in" /\ helper.via = "get_player_games"
    /\ helper' = Returned(PlayerGameRow(helper.row, <<"7">>))
    /\ UNCHANGED <<storeVars, pipeVars, conv, season_cache, client>>

NextNorm ==
    \/ NormRemap
    \/ NormTeamRatings
    \/ NormTeams
    \/ NormPlayers
    \/ NormGames
    \/ NormPlayerGames

SpecNorm == InitNorm /\ [][NextNorm]_vars

----------------------------------------------------------------------------
(* The Season Cache under concurrent requests: every await of a remote      *)
(* fetch is a point where another request runs                               *)

\* the requests served at once, and the calls made in all
MaxClients == 2

MaxCalls == 3

\* the seasons of a career profile (two of them here)
PROFILE_YEARS == <<2024, 2025>>

\* the row loop of get_player_season over the rows the provider returns
PlayerSeasonRows(dataset) ==
    LET rows == Upstream(dataset, "players")
    IN [i \in 1..Len(rows) |-> ResolvePlayer(rows[i], i - 1).row]

InitCache ==
    /\ Quiescent
    /\ conv = ConvOff
    /\ helper = NoCall
    /\ season_cache = NoRows
    /\ client = [n |-> 0,
                 req |-> [s \in 1..MaxClients |->
                            [op |-> "none", pc |-> "idle", pending |-> {}, fetched |-> {},
                             data |-> NoRows]]]

\* get_player_season(season) up to its await: the year of the label is looked
\* up, and a miss issues the remote fetch
CallPlayerSeason ==
    /\ client.n < MaxCalls
    /\ \E s \in 1..MaxClients, y \in {2024, 2025} :
         LET year == season_to_year(year_to_season(y)).val
             miss == year \notin DOMAIN season_cache
         IN /\ client.req[s].pc = "idle"
            /\ client' = [n |-> client.n + 1,
                          req |-> [client.req EXCEPT ![s] =
                                     [op |-> "get_player_season",
                                      pc |-> IF miss THEN "waiting" ELSE "returned",
                                      pending |-> IF miss THEN {year} ELSE {},
                                      fetched |-> IF miss THEN {year} ELSE {},
                                      data |-> IF miss THEN NoRows
                                               ELSE [q \in {year} |-> season_cache[year]]]]]
    /\ UNCHANGED <<storeVars, pipeVars, conv, helper, season_cache>>

\* _get_season_players(year) up to the await inside get_player_season: two
\* lookups with no await between them
CallSeasonPlayers ==
    /\ client.n < MaxCalls
    /\ \E s \in 1..MaxClients, year \in {2024, 2025} :
         LET inner == season_to_year(year_to_season(year)).val
             miss == year \notin DOMAIN season_cache /\ inner \notin DOMAIN season_cache
         IN /\ client.req[s].pc = "idle"
            /\ client' = [n |-> client.n + 1,
                          req |-> [client.req EXCEPT ![s] =
                                     [op |-> "_get_season_players",
                                      pc |-> IF miss THEN "waiting" ELSE "returned",
                                      pending |-> IF miss THEN {inner} ELSE {},
                                      fetched |-> IF miss THEN {inner} ELSE {},
                                      data |-> IF miss THEN NoRows
                                               ELSE [q \in {year} |->
                                                        IF year \in DOMAIN season_cache
                                                        THEN season_cache[year]
                                                        ELSE season_cache[inner]]]]]
    /\ UNCHANGED <<storeVars, pipeVars, conv, helper, season_cache>>

\* get_player_profile up to its gather: _get_season_players is started for
\* every year of the profile, each runs to its first await
CallPlayerProfile ==
    /\ client.n < MaxCalls
    /\ \E s \in 1..MaxClients :
         LET misses == {PROFILE_YEARS[i] : i \in 1..Len(PROFILE_YEARS)} \ DOMAIN season_cache
         IN /\ client.req[s].pc = "idle"
            /\ client' = [n |-> client.n + 1,
                          req |-> [client.req EXCEPT ![s] =
                                     [op |-> "get_player_profile",
                                      pc |-> IF misses = {} THEN "returned" ELSE "waiting",
                                      pending |-> misses, fetched |-> misses,
                                      data |-> [y \in {PROFILE_YEARS[i] :
                                                            i \in 1..Len(PROFILE_YEARS)}
                                                        \ misses |-> season_cache[y]]]]]
    /\ UNCHANGED <<storeVars, pipeVars, conv, helper, season_cache>>

\* a remote fetch returns: the rows are normalized and written to the cache
\* (by get_player_season, and once more by _get_season_players)
FetchReturn ==
    /\ \E s \in 1..MaxClients, d \in Datasets :
         \E year \in client.req[s].pending :
            /\ season_cache' = [y \in DOMAIN season_cache \cup {year} |->
                                   IF y = year THEN PlayerSeasonRows(d) ELSE season_cache[y]]
            /\ client' = [client EXCEPT
                            !.req[s].pending = @ \ {year},
                            !.req[s].pc = IF @ = "waiting" /\ client.req[s].pending = {year}
                                          THEN "returned" ELSE @,
                            !.req[s].data = [y \in DOMAIN @ \cup {year} |->
                                                IF y = year THEN PlayerSeasonRows(d)
                                                ELSE @[y]]]
    /\ UNCHANGED <<storeVars, pipeVars, conv, helper>>

\* a remote fetch raises: nothing is written, the request fails, and the other
\* fetches of a gather go on
FetchRaise ==
    /\ \E s \in 1..MaxClients :
         \E year \in client.req[s].pending :
            client' = [client EXCEPT !.req[s].pending = @ \ {year}, !.req[s].pc = "raised"]
    /\ UNCHANGED <<storeVars, pipeVars, conv, helper, season_cache>>

\* the identity fields of a profile
IDENTITY_FIELDS == {"name", "team", "conference", "position", "year_in_school", "height"}

\* next((p for p in season_players if p.get("player_id") == torvik_id), None):
\* the first row of the season with the identifier, if there is one
PlayerOf(season_players, torvik_id) ==
    LET hits == {i \in 1..Len(season_players) :
                    Get(season_players[i], "player_id") = torvik_id}
    IN IF hits = {} THEN [found |-> FALSE, row |-> <<>>]
       ELSE [found |-> TRUE,
             row |-> season_players[CHOOSE i \in hits : \A j \in hits : i <= j]]

\* the positions in _PROFILE_YEARS of the seasons in which the player is found
SeasonsOf(seasons_data, torvik_id) ==
    {i \in 1..Len(PROFILE_YEARS) :
        /\ PROFILE_YEARS[i] \in DOMAIN seasons_data
        /\ PlayerOf(seasons_data[PROFILE_YEARS[i]], torvik_id).found}

\* get_player_profile after its gather, reduced to player_meta: the loop runs
\* over the seasons in the order of _PROFILE_YEARS and player_meta is set in
\* the first season in which the player is found; found is FALSE for the None
\* returned when the player is in no season
get_player_profile(seasons_data, torvik_id) ==
    LET found == SeasonsOf(seasons_data, torvik_id)
    IN IF found = {} THEN [found |-> FALSE, meta |-> <<>>]
       ELSE LET first == CHOOSE i \in found : \A j \in found : i <= j
                player == PlayerOf(seasons_data[PROFILE_YEARS[first]], torvik_id).row
            IN [found |-> TRUE, meta |-> [k \in IDENTITY_FIELDS |-> Get(player, k)]]

\* the request is answered and its slot is free again
Respond ==
    /\ \E s \in 1..MaxClients :
         /\ client.req[s].pc \in {"returned", "raised"}
         /\ client.req[s].pending = {}
         /\ client' = [client EXCEPT !.req[s] =
                          [op |-> "none", pc |-> "idle", pending |-> {}, fetched |-> {},
                             data |-> NoRows]]
    /\ UNCHANGED <<storeVars, pipeVars, conv, helper, season_cache>>

NextCache ==
    \/ CallPlayerSeason
    \/ CallSeasonPlayers
    \/ CallPlayerProfile
    \/ FetchReturn
    \/ FetchRaise
    \/ Respond

SpecCache == InitCache /\ [][NextCache]_vars

----------------------------------------------------------------------------
(* The refresh job in a process whose Season Cache earlier requests may     *)
(* have filled                                                              *)

InitServe ==
    /\ player_seasons = {}
    /\ team_seasons = {}
    /\ player_games = {}
    /\ team_games = {}
    /\ game_num_seq = 0
    /\ run = [pc |-> "idle", n |-> 0, years |-> <<>>, include_games |-> FALSE, yi |-> 0,
              dataset |-> "A", cause |-> "none"]
    /\ tasks = [players |-> "none", teams |-> "none"]
    /\ pending = [players |-> <<>>, teams |-> <<>>, games |-> <<>>, team_games |-> <<>>]
    /\ hist = [failed |-> {}, steps |-> {}, upsert |-> NoUpsert, aggregated |-> {},
               loaded |-> {}, last |-> NoLast, repeat |-> NoRepeat]
    /\ reader = NoRead
    /\ conv = ConvOff
    /\ helper = NoCall
    /\ client = NoClients
    /\ \/ season_cache = NoRows
       \/ season_cache = [y \in {2024} |-> PlayerSeasonRows("B")]

SpecServe == InitServe /\ [][Next]_vars

----------------------------------------------------------------------------
(* Properties *)

StoredTable(tbl) == IF tbl = "team_games" THEN team_games ELSE player_games

\* the records a game-level upsert builds from its input list
InputRecords(tbl, year, rows) ==
    IF tbl = "team_games"
    THEN {Records(TeamGameCols, year, rows)[i] : i \in 1..Len(rows)}
    ELSE {Records(PlayerGameInsertCols, year, rows)[i] : i \in 1..Len(rows)}

\* a stored row as the loader gave it: without the game_num the store assigned
AsLoaded(tbl, r) == IF tbl = "team_games" THEN r ELSE Without(r, "game_num")

\* C1: when a game-level upsert of year Y with input R has returned, the rows
\* stored for Y are the rows of R (none of an earlier load is left, also when
\* R is empty) and the rows of every other year are the ones stored before.
C1_FullReplacement ==
    hist.upsert.state = "returned" =>
        LET u == hist.upsert
            now == {AsLoaded(u.tbl, r) : r \in OfYear(StoredTable(u.tbl), u.year)}
        IN /\ now \subseteq InputRecords(u.tbl, u.year, u.rows)
           /\ u.rows = <<>> => now = {}
           /\ DeleteYear(StoredTable(u.tbl), u.year) = u.others

\* C2: the delete-then-insert of a game-level upsert of year Y is atomic: a
\* reader of the table for Y while the upsert is under way sees the rows
\* stored before it, and after a failed insert those rows are still stored.
C2_AtomicReplace ==
    /\ reader.torn => reader.n = Cardinality(hist.upsert.before)
    /\ hist.upsert.state = "failed" =>
          OfYear(StoredTable(hist.upsert.tbl), hist.upsert.year) = hist.upsert.before

\* the normalized row lists of the two season endpoints, and the empty list
PlayerRowLists ==
    {<<>>} \cup {[i \in 1..Len(Upstream(d, "players")) |->
                    ResolvePlayer(Upstream(d, "players")[i], i - 1).row] : d \in Datasets}

TeamRowLists ==
    {<<>>} \cup {[i \in 1..Len(Upstream(d, "teams")) |->
                    ResolveTeam(Upstream(d, "teams")[i])] : d \in Datasets}

UniqueKeys(table, key) == \A a, b \in table : SameKey(a, b, key) => a = b

HasRepeatedKey(recs, key) ==
    \E i, j \in 1..Len(recs) : i < j /\ SameKey(recs[i], recs[j], key)

\* C3: season-level upserts are idempotent: on every reachable store, for each
\* year and each input list R (also one holding a key twice), the upsert with
\* R applied twice leaves the table that one application leaves, and the
\* table holds one row per key.
C3_Idempotent ==
    \A y \in Years :
        /\ \A R \in PlayerRowLists :
              LET once == upsert_player_seasons(player_seasons, y, R)
                  twice == upsert_player_seasons(once.table, y, R)
              IN once.ok => /\ twice.ok
                            /\ twice.table = once.table
                            /\ UniqueKeys(once.table, PlayerSeasonKey)
        /\ \A R \in TeamRowLists :
              LET once == upsert_team_seasons(team_seasons, y, R)
                  twice == upsert_team_seasons(once.table, y, R)
              IN once.ok => /\ twice.ok
                            /\ twice.table = once.table
                            /\ UniqueKeys(once.table, TeamSeasonKey)

\* C3 witness: the player upsert has just been applied a second time in a row
\* with the same list for the same year, a list that holds one key twice; the
\* team upsert likewise
C3_Witness_RepeatedUpsert ==
    /\ run.pc = "season"
    /\ tasks.players = "done" /\ hist.repeat.players
    /\ HasRepeatedKey(Records(PlayerSeasonCols, cur_year, pending.players), PlayerSeasonKey)
    /\ tasks.teams = "done" /\ hist.repeat.teams
    /\ HasRepeatedKey(Records(TeamSeasonInsertCols, cur_year, pending.teams), TeamSeasonKey)

\* the last record of the list with the key of a stored row
LastWithKey(recs, old, key) ==
    recs[CHOOSE i \in 1..Len(recs) :
            /\ SameKey(recs[i], old, key)
            /\ \A j \in 1..Len(recs) : SameKey(recs[j], old, key) => j <= i]

\* for every stored row whose key is in the incoming list, the row stored
\* after the upsert holds the incoming value in every column of cols and the
\* stored value in every column of kept
Overwrites(before, after, recs, key, cols, kept) ==
    \A old \in before :
        (\E i \in 1..Len(recs) : SameKey(recs[i], old, key)) =>
            \E new \in after :
                /\ SameKey(new, old, key)
                /\ \A c \in cols : new[c] = LastWithKey(recs, old, key)[c]
                /\ \A c \in kept : new[c] = old[c]

PlayersStored == tasks.players = "store" /\ tasks'.players = "done"

TeamsStored == tasks.teams = "store" /\ tasks'.teams = "done"

\* C4 as stated: on a key conflict a season-level upsert overwrites every
\* non-key column of the stored row (of player_seasons, of team_seasons) with
\* the value of the incoming row.
C4_OverwritesEveryColumn ==
    [][/\ PlayersStored =>
             Overwrites(player_seasons, player_seasons',
                        Records(PlayerSeasonCols, cur_year, pending.players),
                        PlayerSeasonKey, PlayerSeasonCols \ PlayerSeasonKey, {})
       /\ TeamsStored =>
             Overwrites(team_seasons, team_seasons',
                        Records(TeamSeasonCols, cur_year, pending.teams),
                        TeamSeasonKey, TeamSeasonCols \ TeamSeasonKey, {})]_vars

\* C4 amended: on a key conflict the upsert into player_seasons overwrites
\* every non-key column with the incoming value; the upsert into team_seasons
\* overwrites the ratings columns (name, conference, ortg, drtg, net_rtg,
\* pace, barthag, wab, nc_sos, ov_sos, seed) and leaves wins, losses, record
\* and the eight four-factor columns as stored.
C4_OverwritesUpsertedColumns ==
    [][/\ PlayersStored =>
             Overwrites(player_seasons, player_seasons',
                        Records(PlayerSeasonCols, cur_year, pending.players),
                        PlayerSeasonKey, PlayerSeasonCols \ PlayerSeasonKey, {})
       /\ TeamsStored =>
             Overwrites(team_seasons, team_seasons',
                        Records(TeamSeasonInsertCols, cur_year, pending.teams),
                        TeamSeasonKey, TeamSeasonInsertCols \ TeamSeasonKey,
                        TeamSeasonDerivedCols)]_vars

\* C4 witness: the team upsert has just run over a stored row that carried
\* aggregates and other ratings, the player upsert over a stored row with
\* other values
C4_Witness_Conflict ==
    /\ run.pc = "season"
    /\ tasks.teams = "done" /\ tasks.players = "done"
    /\ ~hist.repeat.teams /\ hist.last.teams[2] = "B"
    /\ ~hist.repeat.players /\ hist.last.players[2] = "B"
    /\ \E r \in OfYear(team_seasons, cur_year) :
          /\ ~IsNull(r["wins"])
          /\ \E i \in 1..Len(pending.teams) : pending.teams[i]["team_id"] = r["team_id"]
    /\ Cardinality(OfYear(player_seasons, cur_year)) = 2

RatioCols ==
    {"efg_pct", "opp_efg_pct", "tov_pct", "opp_tov_pct", "orb_pct", "drb_pct", "ftr",
     "opp_ftr"}

\* C5: when update_team_season_aggregates has run for year Y, every
\* team_seasons row of Y whose team has no team_games row of Y has record
\* "0-0" and no value in any of the eight ratio columns.
C5_ZeroGames ==
    run.pc = "tg_count" =>
        \A r \in OfYear(team_seasons, cur_year) :
            GamesOf(team_games, r["team_id"], cur_year) = {} =>
                /\ r["record"] = Str(<<"0", "-", "0">>)
                /\ \A c \in RatioCols : IsNull(r[c])

HasDerived(r) == \E c \in TeamSeasonDerivedCols : ~IsNull(r[c])

Derived(r) == [c \in TeamSeasonDerivedCols |-> r[c]]

YearOf(r) == r["year"][2]

\* C6: a team_seasons row holds a derived value (wins, losses, record, a
\* four-factor column) only when team_games rows of its year have been loaded
\* and update_team_season_aggregates has run for its year; a row is inserted
\* without derived values, and the derived values of a stored row change only
\* in the step of update_team_season_aggregates for its year, which leaves it
\* with wins set; a row with wins set keeps wins set.
C6_DerivedOnlyByAggregation ==
    /\ [](\A r \in team_seasons :
             HasDerived(r) => YearOf(r) \in hist.loaded /\ YearOf(r) \in hist.aggregated)
    /\ [][\A new \in team_seasons' :
             LET olds == {o \in team_seasons : SameKey(o, new, TeamSeasonKey)}
             IN IF olds = {} THEN ~HasDerived(new)
                ELSE \A o \in olds :
                        /\ Derived(new) # Derived(o) =>
                              /\ run.pc = "tg_agg" /\ run'.pc = "tg_count"
                              /\ YearOf(new) = cur_year
                              /\ cur_year \in hist.loaded
                              /\ ~IsNull(new["wins"])
                        /\ ~IsNull(o["wins"]) => ~IsNull(new["wins"])]_vars

\* C6 witness: the aggregation has just filled a row of the year, and a row
\* with ratings only is stored beside it
C6_Witness_Aggregated ==
    /\ run.pc = "tg_count"
    /\ \E r \in OfYear(team_seasons, cur_year) : ~IsNull(r["wins"])
    /\ \E r \in team_seasons : ~HasDerived(r)

\* the ratio the formulas give: absent for no or a zero denominator
ExactPct(n, nScale, d, dScale) ==
    IF n = {} \/ d = {} \/ d = {0} THEN Null
    ELSE LET a == CHOOSE x \in n : TRUE
             b == CHOOSE x \in d : TRUE
         IN Dec(RoundDiv(1000 * a * dScale, b * nScale))

\* the two-game example: fgm 20 and 25, tpm 5 and 8, fga 50 and 55, W and L
IsExample(games) ==
    /\ Cardinality(games) = 2
    /\ \E a, b \in games :
          /\ a["fgm"] = Num(20) /\ a["tpm"] = Num(5) /\ a["fga"] = Num(50)
          /\ a["result"] = Str(<<"W">>)
          /\ b["fgm"] = Num(25) /\ b["tpm"] = Num(8) /\ b["fga"] = Num(55)
          /\ b["result"] = Str(<<"L">>)

\* C7: when the aggregation has run for a year, every team_seasons row of the
\* year whose team has stored games has wins and losses equal to the counts
\* of its W and L games, record "{wins}-{losses}", and each four-factor column
\* equal to 100 times summed numerator over summed denominator, rounded to
\* one decimal; the two-game example gives record "1-1" and eFG% 49.0.
C7_SummedRatios ==
    run.pc = "tg_count" =>
        \A r \in OfYear(team_seasons, cur_year) :
            LET games == GamesOf(team_games, r["team_id"], cur_year)
                wins == CountResult(games, "W")
                losses == CountResult(games, "L")
            IN games # {} =>
                  /\ r["wins"] = Num(wins)
                  /\ r["losses"] = Num(losses)
                  /\ r["record"] = Str(NatToStr(wins) \o <<"-">> \o NatToStr(losses))
                  /\ r["efg_pct"] =
                        ExactPct(SumHalf(games, "fgm", "tpm"), 2, SumCol(games, "fga"), 1)
                  /\ r["opp_efg_pct"] =
                        ExactPct(SumHalf(games, "opp_fgm", "opp_tpm"), 2,
                                 SumCol(games, "opp_fga"), 1)
                  /\ r["tov_pct"] =
                        ExactPct(SumCol(games, "tov"), 1,
                                 SumPoss(games, "fga", "fta", "tov"), 100)
                  /\ r["opp_tov_pct"] =
                        ExactPct(SumCol(games, "opp_tov"), 1,
                                 SumPoss(games, "opp_fga", "opp_fta", "opp_tov"), 100)
                  /\ r["orb_pct"] =
                        ExactPct(SumCol(games, "oreb"), 1,
                                 SumPair(games, "oreb", "opp_dreb"), 1)
                  /\ r["drb_pct"] =
                        ExactPct(SumCol(games, "dreb"), 1,
                                 SumPair(games, "dreb", "opp_oreb"), 1)
                  /\ r["ftr"] = ExactPct(SumCol(games, "fta"), 1, SumCol(games, "fga"), 1)
                  /\ r["opp_ftr"] =
                        ExactPct(SumCol(games, "opp_fta"), 1, SumCol(games, "opp_fga"), 1)
                  /\ IsExample(games) =>
                        r["record"] = Str(<<"1", "-", "1">>) /\ r["efg_pct"] = Dec(490)

SeasonRowsPresent(y) ==
    /\ upsert_player_seasons(player_seasons, y, pending.players).table = player_seasons
    /\ upsert_team_seasons(team_seasons, y, pending.teams).table = team_seasons

AllStepsOf(y) ==
    /\ <<"players", y>> \in hist.steps
    /\ <<"teams", y>> \in hist.steps
    /\ run.include_games =>
          <<"player_games", y>> \in hist.steps /\ <<"team_games", y>> \in hist.steps

PerGameFetchFailed(y) ==
    <<"player_games", y>> \in hist.failed \/ <<"team_games", y>> \in hist.failed

\* C8: a failed fetch of a per-game endpoint never aborts the refresh: the
\* step changes no table and run goes on to the next step; for a year with a
\* failed per-game fetch the player_seasons and team_seasons rows written for
\* it stay stored through the refresh; and a refresh that ends has executed
\* every step of every year of its list.
C8_PerGameFetchFailureSkipped ==
    /\ [](run.cause \notin {"player_games", "team_games"})
    /\ [](\A y \in Years : PerGameFetchFailed(y) => SeasonRowsPresent(y))
    /\ [](run.pc = "done" => \A i \in 1..Len(run.years) : AllStepsOf(run.years[i]))
    /\ [][/\ (run.pc = "pgames" /\ <<"player_games", cur_year>> \in hist'.failed) =>
                run'.pc = "tgames" /\ UNCHANGED storeVars
          /\ (run.pc = "tgames" /\ <<"team_games", cur_year>> \in hist'.failed) =>
                run'.pc = "year_end" /\ UNCHANGED storeVars]_vars

\* C8 witness: a refresh of two years has ended after both per-game fetches
\* of its first year failed
C8_Witness_Skipped ==
    /\ run.pc = "done" /\ Len(run.years) = 2 /\ run.include_games
    /\ <<"player_games", run.years[1]>> \in hist.failed
    /\ <<"team_games", run.years[1]>> \in hist.failed
    /\ AllStepsOf(run.years[2])
    /\ OfYear(player_seasons, run.years[1]) # {}
    /\ OfYear(team_seasons, run.years[1]) # {}

SeasonFetchFailed(y) ==
    <<"players", y>> \in hist.failed \/ <<"teams", y>> \in hist.failed

\* C9: when the player-season fetch or the team-ratings fetch of year Y has
\* failed, the refresh never leaves the season step of Y except by aborting:
\* no per-game fetch, no game-level upsert and no aggregation is executed
\* for Y.
C9_SeasonFetchFailureAborts ==
    \A y \in Years :
        SeasonFetchFailed(y) =>
            /\ run.pc \in {"season", "aborted"}
            /\ cur_year = y
            /\ run.pc = "aborted" => run.cause = "season"
            /\ hist.upsert = NoUpsert
            /\ <<"player_games", y>> \notin hist.steps
            /\ <<"team_games", y>> \notin hist.steps

\* C9 witness: a refresh with per-game ingestion has aborted in the season
\* step of its second year on a failed team-ratings fetch, the player task
\* having stored its rows
C9_Witness_Aborted ==
    /\ run.pc = "aborted" /\ run.cause = "season" /\ run.include_games
    /\ run.yi = 2
    /\ <<"teams", cur_year>> \in hist.failed
    /\ tasks.players = "done"

\* C10: season_to_year and year_to_season are exact inverses: a valid label
\* YYYY-YY converted to its year and back is the same label, and a year
\* >= 1000 converted to its label and back is the same year.
C10_ExactInverses ==
    conv.pc = "done" =>
        /\ conv.ok
        /\ conv.kind = "label" => conv.out_label = conv.label
        /\ conv.kind = "year" => conv.out_year = conv.year

HasSeparator(s) == \E i \in 1..Len(s) : s[i] = "-"

\* the text before the first "-" reads as an integer
LeadingInteger(s) ==
    LET head == IF HasSeparator(s)
                THEN SubSeq(s, 1, (CHOOSE i \in 1..Len(s) :
                                      s[i] = "-" /\ \A j \in 1..(i - 1) : s[j] # "-") - 1)
                ELSE s
    IN head # <<>> /\ \A i \in 1..Len(head) : head[i] \in {"2", "0", "3"}

\* C11: season_to_year fails for every text whose leading segment is no
\* integer and for every text without a "-" separator (a bare "2023"); it
\* returns no year for such a text.
C11_InvalidFormatRejected ==
    (conv.kind = "text" /\ conv.pc = "done"
        /\ (~HasSeparator(conv.label) \/ ~LeadingInteger(conv.label)))
    => ~conv.ok

\* the statistics an engine ranks
Tracked(engine) ==
    IF engine = "player" THEN HIGHER_IS_BETTER \cup LOWER_IS_BETTER
    ELSE TEAM_HIGHER \cup TEAM_LOWER

\* its higher-is-better statistics
Higher(engine) == IF engine = "player" THEN HIGHER_IS_BETTER ELSE TEAM_HIGHER

\* the engine has returned
PctDone == helper.kind = "pct" /\ helper.pc = "done"

\* the population rows that have a value for the statistic
WithValue(population, stat) ==
    {i \in 1..Len(population) : ~IsNull(Get(population[i], stat))}

\* C12: for every row, population and tracked statistic the output of the
\* Percentile Engine is absent or an integer in [0,100], and it is absent
\* exactly when the row's value is absent or no population member has a value
C12_PercentileRange ==
    PctDone =>
        /\ DOMAIN helper.result = Tracked(helper.engine)
        /\ \A stat \in Tracked(helper.engine) :
             LET out == helper.result[stat]
                 absent == \/ IsNull(Get(helper.row, stat))
                           \/ WithValue(helper.population, stat) = {}
             IN /\ IsNull(out) <=> absent
                /\ ~IsNull(out) => out[1] = "num" /\ out[2] \in 0..100

\* a row with a value that no population member equals got a percentile, from a
\* population that also holds rows without a value
C12_Witness_RowOutside ==
    /\ PctDone
    /\ ~IsNull(Get(helper.row, helper.stat))
    /\ \A i \in 1..Len(helper.population) : helper.population[i] # helper.row
    /\ WithValue(helper.population, helper.stat) # {}
    /\ WithValue(helper.population, helper.stat) # 1..Len(helper.population)
    /\ ~IsNull(helper.result[helper.stat])

\* C13: when every member of the population has the same value for a tracked
\* statistic and the row has that value, the percentile is 100, for
\* higher-is-better and lower-is-better statistics alike
C13_AllTiedIsHundred ==
    PctDone =>
        \A stat \in Tracked(helper.engine) :
            (/\ helper.population # <<>>
             /\ ~IsNull(Get(helper.row, stat))
             /\ \A i \in 1..Len(helper.population) :
                    Get(helper.population[i], stat) = Get(helper.row, stat))
            => helper.result[stat] = Num(100)

\* a lower-is-better statistic with the same value in several rows
C13_Witness_TiedLower ==
    /\ PctDone
    /\ helper.stat \notin Higher(helper.engine)
    /\ Len(helper.population) >= 2
    /\ ~IsNull(Get(helper.row, helper.stat))
    /\ \A i \in 1..Len(helper.population) :
           Get(helper.population[i], helper.stat) = Get(helper.row, helper.stat)
    /\ helper.result[helper.stat] = Num(100)

\* p is a / b rounded to the nearest integer, a tie rounded to the even one
IsRounded(p, a, b) ==
    LET d == IF a >= p * b THEN a - p * b ELSE p * b - a
    IN 2 * d <= b /\ (2 * d = b => p % 2 = 0)

\* the population values that are no better than the row's value
NoBetterThanRow(stat, engine) ==
    {i \in WithValue(helper.population, stat) :
        IF stat \in Higher(engine)
        THEN Tenths(Get(helper.population[i], stat)) <= Tenths(Get(helper.row, stat))
        ELSE Tenths(Get(helper.population[i], stat)) >= Tenths(Get(helper.row, stat))}

\* C14 as stated: a present percentile is round(100 * c / n) with n the number
\* of rows of the population, rows without a value included
C14_OverPopulationSize ==
    PctDone =>
        \A stat \in Tracked(helper.engine) :
            ~IsNull(helper.result[stat]) =>
                IsRounded(helper.result[stat][2],
                          100 * Cardinality(NoBetterThanRow(stat, helper.engine)),
                          Len(helper.population))

\* C14: a present percentile is round(100 * c / n) with c the number of
\* population values no better than the row's value and n the number of
\* population rows that have a value for the statistic
C14_OverPresentValues ==
    PctDone =>
        \A stat \in Tracked(helper.engine) :
            ~IsNull(helper.result[stat]) =>
                IsRounded(helper.result[stat][2],
                          100 * Cardinality(NoBetterThanRow(stat, helper.engine)),
                          Cardinality(WithValue(helper.population, stat)))

\* a percentile that is a tie between two integers, from a population in which
\* some rows have no value
C14_Witness_TieWithAbsentRows ==
    /\ PctDone
    /\ ~IsNull(helper.result[helper.stat])
    /\ WithValue(helper.population, helper.stat) # 1..Len(helper.population)
    /\ 2 * ((100 * Cardinality(NoBetterThanRow(helper.stat, helper.engine)))
              % Cardinality(WithValue(helper.population, helper.stat)))
         = Cardinality(WithValue(helper.population, helper.stat))

\* the mapper has returned
RemapDone == helper.kind = "remap" /\ helper.pc = "done"

\* the upstream keys of the table that the source row has
MappedSources == DOMAIN FieldMaps[helper.via] \cap DOMAIN helper.row

\* C15: no value of a row produced by the Field Mapper is a non-finite float:
\* every such source value appears as the absent marker, those of the
\* passthrough keys player_id and team_id included, and every other value is
\* passed through unchanged
C15_NoNonFinite ==
    RemapDone =>
        /\ \A k \in DOMAIN helper.out : helper.out[k] # NaN
        /\ \A s \in MappedSources :
             helper.out[FieldMaps[helper.via][s]] =
                 IF helper.row[s] = NaN THEN Null ELSE helper.row[s]

IsRating(row, k) == k \in DOMAIN row /\ row[k][1] \in {"num", "dec"}

\* a rating that is present and no number: None or a text that is no number
NotNumeric(row, k) ==
    k \in DOMAIN row /\ (IsNull(row[k]) \/ (row[k][1] = "str" /\ ~PyFloat(row[k]).ok))

\* C17: a normalized team-ratings row whose offensive and defensive ratings
\* are both present and numeric carries their difference rounded to one
\* decimal as net rating (110.5 and 95.2 give 15.3) on both normalization
\* paths; when either rating is non-numeric the net rating is omitted and no
\* error is raised
C17_NetRating ==
    (helper.kind = "team" /\ helper.pc = "done") =>
        /\ helper.ok
        /\ (IsRating(helper.row, "adj_o") /\ IsRating(helper.row, "adj_d")) =>
               /\ "net_rtg" \in DOMAIN helper.out
               /\ helper.out["net_rtg"]
                      = Dec(Tenths(helper.row["adj_o"]) - Tenths(helper.row["adj_d"]))
        /\ ("adj_o" \in DOMAIN helper.row /\ "adj_d" \in DOMAIN helper.row
               /\ (NotNumeric(helper.row, "adj_o") \/ NotNumeric(helper.row, "adj_d"))) =>
               "net_rtg" \notin DOMAIN helper.out

\* the name or team of the source row, absent when the key is missing or its
\* value is None
SlugOr(k, placeholder) ==
    IF IsNull(Get(helper.row, k)) THEN placeholder
    ELSE ReplaceSpaces(Lower(PyStr(helper.row[k])))

\* C18: identity resolution gives every player row a non-absent internal
\* identifier: the string form of a numeric upstream identifier, otherwise
\* lowercase(name)_lowercase(team) with spaces replaced by underscores, with a
\* positional placeholder for an absent name and a fixed placeholder for an
\* absent team (key missing or value absent)
C18_PlayerIdentifier ==
    (helper.kind = "player" /\ helper.pc = "done" /\ helper.ok) =>
        /\ "player_id" \in DOMAIN helper.out
        /\ ~IsNull(helper.out["player_id"])
        /\ "player_id" \notin DOMAIN helper.row =>
             helper.out["player_id"] =
                 IF ~IsNull(Get(helper.row, "id"))
                 THEN Str(IntToStr(helper.row["id"][2]))
                 ELSE Str(SlugOr("player", <<"p">> \o NatToStr(helper.i)) \o <<"_">>
                            \o SlugOr("team", <<"u", "n", "k">>))

\* C19: normalization of a fetched row never raises because an individual
\* field is missing or malformed (a non-numeric identifier, a non-numeric
\* makes or attempts count, a date of unexpected type)
C19_NeverRaises ==
    (helper.kind \in {"player", "game"} /\ helper.pc = "done") => helper.ok

\* C20: under every interleaving of concurrent get_player_season,
\* _get_season_players and get_player_profile calls, an entry of the Season
\* Cache is never removed and never overwritten by a later write, and a lookup
\* of a year whose entry exists issues no remote fetch
C20_CacheEntryStable ==
    [][/\ \A y \in DOMAIN season_cache :
            y \in DOMAIN season_cache' /\ season_cache'[y] = season_cache[y]
       /\ \A s \in DOMAIN client.req :
            (client.req[s].pc = "idle" /\ client'.req[s].pc # "idle")
                => client'.req[s].fetched \cap DOMAIN season_cache = {}]_vars

\* C21: the persistence path never consults or mutates the Season Cache: a
\* refresh of year Y normalizes the rows of a fresh remote fetch whether or not
\* the cache holds an entry for Y, and no step of a refresh changes the cache
C21_RefreshIgnoresCache ==
    /\ [](tasks.players = "store" => pending.players = PlayerSeasonRows(run.dataset))
    /\ [][season_cache' = season_cache]_vars

\* the refresh of a year that the cache holds has rows to store that are not
\* those of the cache entry
C21_Witness_CachedYear ==
    /\ run.pc = "season"
    /\ tasks.players = "store"
    /\ cur_year \in DOMAIN season_cache
    /\ pending.players # season_cache[cur_year]

\* the rows of the year in the table after a season-level upsert that carry
\* the identifier of an input row: the rows the call inserted or updated
Touched(after, year, rows, id) ==
    {r \in OfYear(after, year) : \E i \in 1..Len(rows) : Get(rows[i], id) = r[id]}

\* C22: every upsert operation returns the number of rows it wrote: the
\* returned count equals the number of rows of the target year that the call
\* inserted or updated, also when several input rows have one primary key
C22_ReturnsRowsWritten ==
    [][/\ (tasks.players = "store" /\ tasks'.players = "done") =>
             upsert_player_seasons(player_seasons, cur_year, pending.players).count
                 = Cardinality(Touched(player_seasons', cur_year, pending.players,
                                       "player_id"))
       /\ (tasks.teams = "store" /\ tasks'.teams = "done") =>
             upsert_team_seasons(team_seasons, cur_year, pending.teams).count
                 = Cardinality(Touched(team_seasons', cur_year, pending.teams, "team_id"))
       /\ (run.pc = "pg_insert" /\ run'.pc = "tgames") =>
             ReturnedCount(pending.games) = Cardinality(OfYear(player_games', cur_year))
       /\ (run.pc = "tg_insert" /\ run'.pc = "tg_agg") =>
             ReturnedCount(pending.team_games)
                 = Cardinality(OfYear(team_games', cur_year))]_vars

\* the positions of run inside the per-game steps of a year
PerGamePcs ==
    {"pgames", "pg_upsert", "pg_insert", "tgames", "tg_upsert", "tg_insert", "tg_agg",
     "tg_count"}

\* C23: in a batch refresh the player-season and the team-ratings
\* fetch-and-store of a year are started together, the per-game steps (player
\* game logs, then team game box scores and aggregation) start only after both
\* season-level steps have completed, and no step of a later year starts before
\* every step of the year before it has finished
C23_StepOrder ==
    /\ [](run.pc = "season" => tasks.players # "none" /\ tasks.teams # "none")
    /\ [](run.pc \in PerGamePcs \cup {"year_end"} =>
              /\ tasks.players = "done" /\ tasks.teams = "done"
              /\ <<"players", cur_year>> \in hist.steps
              /\ <<"teams", cur_year>> \in hist.steps)
    /\ [](run.pc \in {"tgames", "tg_upsert", "tg_insert", "tg_agg", "tg_count"} =>
              /\ <<"player_games", cur_year>> \in hist.steps
              /\ <<"team_games", cur_year>> \notin hist.steps)
    /\ [](run.pc \in PerGamePcs \cup {"season", "year_end", "aborted"} =>
              \A j \in 1..Len(run.years) :
                  /\ j < run.yi => AllStepsOf(run.years[j])
                  /\ j > run.yi => \A name \in {"players", "teams", "player_games",
                                                "team_games"} :
                                       <<name, run.years[j]>> \notin hist.steps)
    /\ [][((tasks.players = "fetch" /\ tasks.players # tasks'.players)
              \/ (tasks.teams = "fetch" /\ tasks.teams # tasks'.teams))
            => (run.pc = "season" /\ run'.pc = "season")]_vars

\* the second year of a batch is in its season step with the team task done
\* before the player task has fetched, after a first year with per-game steps
C23_Witness_SecondYear ==
    /\ run.pc = "season" /\ run.yi = 2 /\ run.include_games
    /\ tasks.teams = "done" /\ tasks.players = "fetch"
    /\ AllStepsOf(run.years[1])

\* C24: after fetch_and_store_team_games has aggregated for year Y, the
\* derived fields of every team_seasons row of Y are the aggregation of the
\* team_games rows stored for that team and year; a team without a stored game
\* of Y keeps no wins, losses, record or ratio of an earlier load
C24_DerivedMatchStoredGames ==
    run.pc = "tg_count" =>
        \A r \in OfYear(team_seasons, cur_year) :
            LET games == GamesOf(team_games, r["team_id"], cur_year)
            IN IF games # {} THEN r = Aggregated(r, games)
               ELSE /\ r["wins"] \in {Null, Num(0)}
                    /\ r["losses"] \in {Null, Num(0)}
                    /\ r["record"] \in {Null, Str(<<"0", "-", "0">>)}
                    /\ \A c \in RatioCols : IsNull(r[c])

\* the box-score rows the provider returned to the load under way
BoxRows == Upstream(run.dataset, "team_games")

\* C26: every team_games row stored by fetch_and_store_team_games for year Y
\* carries a team_id, which is that of every team_seasons row of Y with the
\* game's team name, so that aggregation joins the game to its team-season
\* row; upstream rows without a team name are dropped
C26_GameTeamId ==
    (run.pc \in {"tg_agg", "tg_count"} /\ pending.team_games # <<>>) =>
        /\ \A g \in OfYear(team_games, cur_year) :
             /\ ~IsNull(g["team_id"])
             /\ \E i \in 1..Len(BoxRows) :
                  /\ BoxRows[i]["game_id"] = g["game_id"]
                  /\ Truthy(BoxRows[i]["team"])
                  /\ \A r \in OfYear(team_seasons, cur_year) :
                         r["name"] = BoxRows[i]["team"] => g["team_id"] = r["team_id"]
        /\ \A i \in 1..Len(BoxRows) :
             Truthy(BoxRows[i]["team"]) <=>
                 \E g \in OfYear(team_games, cur_year) : g["game_id"] = BoxRows[i]["game_id"]

\* a game was stored under the team_id of its team-season row, which is not
\* the slug of the team name
C26_Witness_LookedUp ==
    /\ run.pc = "tg_agg" /\ pending.team_games # <<>>
    /\ \E g \in OfYear(team_games, cur_year), r \in OfYear(team_seasons, cur_year) :
         /\ g["team_id"] = r["team_id"]
         /\ r["team_id"] # Str(Slug(r["name"]))

\* the season-summed numerator and denominator of a four-factor field
Numerator(games, c) ==
    CASE c = "efg_pct" -> SumHalf(games, "fgm", "tpm")
      [] c = "opp_efg_pct" -> SumHalf(games, "opp_fgm", "opp_tpm")
      [] c = "ftr" -> SumCol(games, "fta")
      [] c = "opp_ftr" -> SumCol(games, "opp_fta")
      [] c = "tov_pct" -> SumCol(games, "tov")
      [] c = "opp_tov_pct" -> SumCol(games, "opp_tov")
      [] c = "orb_pct" -> SumCol(games, "oreb")
      [] OTHER -> SumCol(games, "dreb")

Denominator(games, c) ==
    CASE c \in {"efg_pct", "ftr"} -> SumCol(games, "fga")
      [] c \in {"opp_efg_pct", "opp_ftr"} -> SumCol(games, "opp_fga")
      [] c = "tov_pct" -> SumPoss(games, "fga", "fta", "tov")
      [] c = "opp_tov_pct" -> SumPoss(games, "opp_fga", "opp_fta", "opp_tov")
      [] c = "orb_pct" -> SumPair(games, "oreb", "opp_dreb")
      [] OTHER -> SumPair(games, "dreb", "opp_oreb")

LatestSeason(seasons_data, torvik_id) ==
    LET found == SeasonsOf(seasons_data, torvik_id)
    IN PROFILE_YEARS[CHOOSE i \in found :
                        \A j \in found : PROFILE_YEARS[j] <= PROFILE_YEARS[i]]

\* C25: the identity fields of the profile that get_player_profile returns are
\* those of the player's row of the most recent season in which the player
\* appears
C25_IdentityOfLatestSeason ==
    \A s \in DOMAIN client.req :
        (client.req[s].op = "get_player_profile" /\ client.req[s].pc = "returned") =>
            \A id \in {Str(<<"7">>), Str(<<"b", "o", "_", "n", "c", "_", "s", "t">>)} :
                LET seasons_data == client.req[s].data
                    profile == get_player_profile(seasons_data, id)
                IN profile.found =>
                       \A k \in IDENTITY_FIELDS :
                           profile.meta[k] =
                               Get(PlayerOf(seasons_data[LatestSeason(seasons_data, id)],
                                            id).row, k)

====
